---- MODULE Spec2Model ----
(***************************************************************************)
(* State-machine model of the invoice analyzer: the price analyzer         *)
(* (src/src/lib/price-analyzer.ts), the CSV parser                          *)
(* (src/src/lib/csv-parser.ts), the data importer                           *)
(* (src/src/lib/data-importer.ts) with the import script                    *)
(* (src/unnamed/part_011) over the tables of the schema                     *)
(* (src/unnamed/part_004), and the route-protection middleware              *)
(* (src/unnamed/part_013).                                                  *)
(*                                                                         *)
(* Numbers: unit prices are non-negative integers (a price in a fixed       *)
(* minor unit).  JavaScript's floating-point quotients are modelled by      *)
(* exact rational arithmetic: a comparison x / y >= t is evaluated by       *)
(* cross-multiplication, x / 0 is Infinity for x # 0 and NaN for x = 0     *)
(* (every comparison with NaN is false).  Dates are day numbers; the        *)
(* order of new Date(s).getTime() is the order of the day numbers.          *)
(***************************************************************************)
EXTENDS Integers, Sequences, FiniteSets, TLC

(***************************************************************************)
(* Bounds of the model and the small value sets the inputs are drawn from.  *)
(***************************************************************************)
MaxInvoices == 2
MaxItems == 3

Products == {"P1", "P2"}
FirstProduct == "P1"
Prices == {0, 6, 10, 12}
Dates == {1, 2, 3}
Thresholds == {0, 20}

VARIABLES
  anInvoices,     \* analyzer input: ParsedInvoice[]
  anCalled,       \* the exported functions applied to anInvoices so far
  anThreshold,    \* analyzePriceChanges' threshold argument
  anChanges,      \* analyzePriceChanges' return value
  anStats,        \* calculateProductStats' map, as its entries in insertion order
  anAlerts,       \* generatePriceAlerts' return value
  pkInput,        \* parsePackSize's argument, a string (sequence of characters)
  pkCase,         \* how pkInput was written: its form and the parts it is made of
  pkResult,       \* parsePackSize's return value, a PackSizeInfo
  pkCalled,       \* whether parsePackSize has returned
  csvRows,        \* processInvoiceData's argument: the rows of a parsed CSV file
  csvInvoices,    \* processInvoiceData's return value: ParsedInvoice[]
  csvCalled,      \* whether processInvoiceData has returned
  mwPath,         \* request.nextUrl.pathname of the request, a string
  mwUser,         \* whether supabase.auth.getUser() resolves a user for it
  mwResponse,     \* the answer to the request
  mwRedirects,    \* the redirects the browser has followed for the request
  dbInvoices,     \* table invoices, rows in insertion order (id = position)
  dbLineItems,    \* table invoice_line_items
  dbProducts,     \* table product_master
  dbPriceHistory, \* table price_history
  dbPriceAlerts,  \* table price_alerts
  im,             \* importInvoicesToDatabase: where the running call stands
  dsInvoices,     \* dashboard database: table invoices (with the joined location)
  dsItems,        \* dashboard database: table invoice_items (with the joined invoice)
  dsArg,          \* the argument of the dashboard query that is called
  dsTimeZone,     \* the time zone the query's JavaScript runs in
  dsResult,       \* the rows the dashboard query returns
  dsCalled,       \* "no", or "ok" once the query has returned
  dtPrevious,     \* the previous price handed to the price-change detectors
  dtCurrent,      \* the current price handed to them
  dtFlags,        \* which detectors call the pair significant, once they ran
  cc,             \* concurrent calls of importInvoicesToDatabase: where each stands
  dr,             \* importInvoicesFromDirectory: where the call stands, and its result
  msInvoices,     \* calculateMonthlySpending's argument: ParsedInvoice[]
  msResult,       \* calculateMonthlySpending's return value, <<>> before the call
  msCalled,       \* whether calculateMonthlySpending has returned
  cpItem,         \* the line item updateProductMasterAndPriceHistory is at
  cpProducts,     \* table product_master, as rows with their category
  cpCategory,     \* const category (data-importer.ts line 226), "" before it is set
  cpPc            \* position in the loop body: "check", "insert" or "done"

anVars == <<anInvoices, anCalled, anThreshold, anChanges, anStats, anAlerts>>
pkVars == <<pkInput, pkCase, pkResult, pkCalled>>
csvVars == <<csvRows, csvInvoices, csvCalled>>
mwVars == <<mwPath, mwUser, mwResponse, mwRedirects>>
dbVars == <<dbInvoices, dbLineItems, dbProducts, dbPriceHistory, dbPriceAlerts>>
imVars == <<dbVars, im>>
dsVars == <<dsInvoices, dsItems, dsArg, dsTimeZone, dsResult, dsCalled>>
dtVars == <<dtPrevious, dtCurrent, dtFlags>>
msVars == <<msInvoices, msResult, msCalled>>
cpVars == <<cpItem, cpProducts, cpCategory, cpPc>>
fnVars == <<msVars, cpVars>>
otherVars == <<dtVars, cc, dr, fnVars>>
vars == <<anVars, pkVars, csvVars, mwVars, imVars, dsVars, otherVars>>

AnalyzerIdle ==
  /\ anInvoices = <<>>
  /\ anCalled = {}
  /\ anThreshold = 0
  /\ anChanges = <<>>
  /\ anStats = <<>>
  /\ anAlerts = <<>>

NoPackSizeInfo == [units |-> [num |-> 0, den |-> 1], size |-> <<>>, unitType |-> <<>>,
                   totalUnits |-> [num |-> 0, den |-> 1]]
NoPackCase == [form |-> "none", n |-> <<>>, m |-> <<>>, unit |-> <<>>]

PackSizeIdle ==
  /\ pkInput = <<>>
  /\ pkCase = NoPackCase
  /\ pkResult = NoPackSizeInfo
  /\ pkCalled = FALSE

CsvIdle ==
  /\ csvRows = <<>>
  /\ csvInvoices = <<>>
  /\ csvCalled = FALSE

Response(kind, location) == [kind |-> kind, location |-> location]
Pending == Response("pending", <<>>)

MiddlewareIdle ==
  /\ mwPath = <<>>
  /\ mwUser = FALSE
  /\ mwResponse = Pending
  /\ mwRedirects = 0

NoInvoice == [documentNumber |-> "", documentDate |-> 0, lineItems |-> <<>>]

\* no import is running
NoRun ==
  [pc |-> "idle", restaurantId |-> "", left |-> 0, fileDocs |-> {},
   invoice |-> NoInvoice, invoiceId |-> 0, item |-> 0]

DashboardIdle ==
  /\ dsInvoices = <<>>
  /\ dsItems = <<>>
  /\ dsArg = 0
  /\ dsTimeZone = "UTC"
  /\ dsResult = <<>>
  /\ dsCalled = "no"

NoFlags == [d \in {} |-> FALSE]

DetectorsIdle ==
  /\ dtPrevious = 0
  /\ dtCurrent = 0
  /\ dtFlags = NoFlags

\* no concurrent imports
ConcurrentIdle == cc = <<>>

\* lines 33-41: the ImportResult a call starts with.  errors holds, for each
\* message, the number of the file it is about (0: about the directory);
\* skippedFiles holds the numbers of the files
NoResult ==
  [success |-> FALSE, totalFiles |-> 0, processedFiles |-> 0, totalInvoices |-> 0,
   totalLineItems |-> 0, errors |-> <<>>, skippedFiles |-> <<>>]

\* importInvoicesFromDirectory is not running
NoDirectoryRun ==
  [pc |-> "idle", restaurantId |-> "", file |-> 0, size |-> 0, left |-> 0,
   fileDocs |-> {}, fileLineItems |-> 0, result |-> NoResult]

DirectoryIdle == dr = NoDirectoryRun

MonthlySpendingIdle ==
  /\ msInvoices = <<>>
  /\ msResult = <<>>
  /\ msCalled = FALSE

CategorizeIdle ==
  /\ cpItem = [productNumber |-> 0, productDescription |-> <<>>]
  /\ cpProducts = {}
  /\ cpCategory = ""
  /\ cpPc = "done"

FunctionsIdle == MonthlySpendingIdle /\ CategorizeIdle

OthersIdle == DetectorsIdle /\ ConcurrentIdle /\ DirectoryIdle /\ FunctionsIdle

ImportIdle ==
  /\ dbInvoices = <<>>
  /\ dbLineItems = <<>>
  /\ dbProducts = {}
  /\ dbPriceHistory = <<>>
  /\ dbPriceAlerts = <<>>
  /\ im = NoRun

(***************************************************************************)
(* Generic helpers.                                                         *)
(***************************************************************************)
Abs(x) == IF x < 0 THEN -x ELSE x

RECURSIVE SumSeq(_)
SumSeq(s) == IF s = <<>> THEN 0 ELSE Head(s) + SumSeq(Tail(s))

RECURSIVE Concat(_)
\* flattens a sequence of sequences
Concat(ss) == IF ss = <<>> THEN <<>> ELSE Head(ss) \o Concat(Tail(ss))

\* Array.prototype.sort with a consistent comparator: a stable sort.
\* Before(a, b) is "compare(a, b) < 0".
StableSort(s, Before(_, _)) ==
  LET n == Len(s)
      pos(i) == Cardinality({j \in 1..n : \/ Before(s[j], s[i])
                                          \/ (~Before(s[i], s[j]) /\ j < i)}) + 1
  IN  [p \in 1..n |-> s[CHOOSE i \in 1..n : pos(i) = p]]

RECURSIVE Distinct(_)
\* the keys of a Map in insertion order: first appearances of a sequence
Distinct(s) ==
  IF s = <<>> THEN <<>>
  ELSE LET init == Distinct(SubSeq(s, 1, Len(s) - 1))
           last == s[Len(s)]
       IN  IF \E i \in 1..Len(init) : init[i] = last THEN init ELSE Append(init, last)

\* Math.round(num / den) for den > 0: the nearest integer, halves towards +Infinity
RoundDiv(num, den) == (2 * num + den) \div (2 * den)

\* a percentage: a finite number of hundredths of a percent, or +Infinity
Finite(h) == [infinite |-> FALSE, hundredths |-> h]
Infinity == [infinite |-> TRUE, hundredths |-> 0]

(***************************************************************************)
(* price-analyzer.ts                                                        *)
(***************************************************************************)
\* new Date(documentDate).getTime()
GetTime(date) == date

\* lines 54-66 (and 180-201): the observations of the invoices, in iteration order
Observations(invs) ==
  Concat([i \in 1..Len(invs) |->
            [j \in 1..Len(invs[i].lineItems) |->
               [productNumber |-> invs[i].lineItems[j].productNumber,
                price         |-> invs[i].lineItems[j].unitPrice,
                date          |-> invs[i].documentDate,
                invoiceNumber |-> invs[i].documentNumber]]])

ByDate(a, b) == GetTime(a.date) < GetTime(b.date)

ByDocumentDate(a, b) == GetTime(a.documentDate) < GetTime(b.documentDate)

\* line 82 and 85: Math.abs(((current - previous) / previous) * 100) >= threshold
ExceedsThresholdStrict(previous, current, threshold) ==
  IF previous = 0 THEN current # 0
  ELSE Abs(current - previous) * 100 > threshold * previous

ExceedsThreshold(previous, current, threshold) ==
  IF previous = 0
  THEN current # 0                  \* x / 0 is Infinity, 0 / 0 is NaN
  ELSE Abs(current - previous) * 100 >= threshold * previous

\* line 101: Math.round(percentageChange * 100) / 100, in hundredths of a percent
RoundedChange(previous, current) ==
  IF previous = 0 THEN Infinity
  ELSE Finite(RoundDiv((current - previous) * 10000, previous))

\* line 110: Math.abs(b.percentageChange) - Math.abs(a.percentageChange) < 0
\* (Infinity - Infinity is NaN, which sort takes as "equal")
ByAbsChangeDesc(a, b) ==
  /\ ~b.percentageChange.infinite
  /\ \/ a.percentageChange.infinite
     \/ Abs(a.percentageChange.hundredths) > Abs(b.percentageChange.hundredths)

\* lines 75-107: the change records of one product's price list
ProductChanges(productNumber, prices, threshold) ==
  LET sorted == StableSort(prices, ByDate)
      rec(i) == [productNumber       |-> productNumber,
                 previousPrice       |-> sorted[i - 1].price,
                 newPrice            |-> sorted[i].price,
                 percentageChange    |-> RoundedChange(sorted[i - 1].price, sorted[i].price),
                 changeType          |-> IF sorted[i].price > sorted[i - 1].price
                                         THEN "increase" ELSE "decrease",
                 invoiceDate         |-> sorted[i].date,
                 previousInvoiceDate |-> sorted[i - 1].date]
      emit(i) == /\ sorted[i].price # sorted[i - 1].price
                 /\ ExceedsThreshold(sorted[i - 1].price, sorted[i].price, threshold)
  IN  IF Len(prices) < 2 THEN <<>>
      ELSE Concat([k \in 1..(Len(sorted) - 1) |->
                     IF emit(k + 1) THEN <<rec(k + 1)>> ELSE <<>>])

\* lines 41-111
analyzePriceChanges(invoices, threshold) ==
  LET sortedInvoices == StableSort(invoices, ByDocumentDate)
      obs      == Observations(sortedInvoices)
      keys     == Distinct([i \in 1..Len(obs) |-> obs[i].productNumber])
      pricesOf(p) == SelectSeq(obs, LAMBDA o : o.productNumber = p)
      priceChanges == Concat([k \in 1..Len(keys) |->
                                ProductChanges(keys[k], pricesOf(keys[k]), threshold)])
  IN  StableSort(priceChanges, ByAbsChangeDesc)

\* line 208: stats.prices.sort(by date), dropped
UnsortedPrices(prices) == prices

\* line 208: stats.prices.sort((a, b) => getTime(a.date) - getTime(b.date))
SortedPrices(prices) == StableSort(prices, ByDate)

\* a non-negative percentage x with (x / 100)^2 = num / den (den > 0)
Root(num, den) == [sqNum |-> num, sqDen |-> den]
RootLess(a, b) == a.sqNum * b.sqDen < b.sqNum * a.sqDen

RECURSIVE SumSquares(_, _, _)
\* sum over the prices p of (n * p - total)^2,
\* which is n^2 times the sum of (p - averagePrice)^2
SumSquares(prices, n, total) ==
  IF prices = <<>> THEN 0
  ELSE (n * Head(prices) - total) * (n * Head(prices) - total)
       + SumSquares(Tail(prices), n, total)

\* lines 216-221 with the variance divided by prices.length - 1
SampleVolatility(prices) ==
  LET n == Len(prices)
      total == SumSeq(prices)
  IN  IF total > 0 /\ n > 1
      THEN Root(SumSquares(prices, n, total), (n - 1) * total * total)
      ELSE Root(0, 1)

\* lines 216-221: priceVolatility = sqrt(variance) / averagePrice * 100 when
\* averagePrice > 0, and 0 otherwise; variance = sum((p - avg)^2) / prices.length
Volatility(prices) ==
  LET n == Len(prices)
      total == SumSeq(prices)
  IN  IF total > 0
      THEN Root(SumSquares(prices, n, total), n * total * total)
      ELSE Root(0, 1)

SetMin(S) == CHOOSE x \in S : \A y \in S : x <= y
SetMax(S) == CHOOSE x \in S : \A y \in S : x >= y

\* lines 176-225; averagePrice is the quotient avgNum / avgDen
calculateProductStats(invoices) ==
  LET obs  == Observations(invoices)
      keys == Distinct([i \in 1..Len(obs) |-> obs[i].productNumber])
      entry(p) ==
        LET mine   == SelectSeq(obs, LAMBDA o : o.productNumber = p)
            sorted == SortedPrices([i \in 1..Len(mine) |->
                                      [price         |-> mine[i].price,
                                       date          |-> mine[i].date,
                                       invoiceNumber |-> mine[i].invoiceNumber]])
            prices == [i \in 1..Len(sorted) |-> sorted[i].price]
        IN  [productNumber   |-> p,
             prices          |-> sorted,
             avgNum          |-> SumSeq(prices),
             avgDen          |-> Len(prices),
             minPrice        |-> SetMin({prices[i] : i \in 1..Len(prices)}),
             maxPrice        |-> SetMax({prices[i] : i \in 1..Len(prices)}),
             priceVolatility |-> Volatility(prices)]
  IN  [k \in 1..Len(keys) |-> entry(keys[k])]

\* line 121 reading the first entry of stats.prices
FirstPrice(prices) == IF Len(prices) > 0 THEN prices[1].price ELSE 0

\* line 121: stats.prices[stats.prices.length - 1]?.price || 0
LatestPrice(prices) == IF Len(prices) > 0 THEN prices[Len(prices)].price ELSE 0

\* line 170: b.deviation - a.deviation < 0
ByDeviationDesc(a, b) == RootLess(b.deviation, a.deviation)

\* lines 120-168: the alerts of one product
ProductAlerts(stats) ==
  LET latestPrice == LatestPrice(stats.prices)
      \* (latestPrice - averagePrice) / averagePrice * 100 = diff * 100 / avgNum
      diff == latestPrice * stats.avgDen - stats.avgNum
      deviates == stats.avgNum # 0 /\ Abs(diff) * 100 > 30 * stats.avgNum
      \* priceVolatility > 25, squared: (x / 100)^2 > (25 / 100)^2 = 1 / 16
      volatile == 16 * stats.priceVolatility.sqNum > stats.priceVolatility.sqDen
      alert(type, deviation, threshold) ==
        [productNumber |-> stats.productNumber,
         currentPrice  |-> latestPrice,
         avgNum        |-> stats.avgNum,
         avgDen        |-> stats.avgDen,
         deviation     |-> deviation,
         alertType     |-> type,
         threshold     |-> threshold]
  IN  (IF deviates
       THEN <<alert(IF diff > 0 THEN "significant_increase" ELSE "significant_decrease",
                    Root(diff * diff, stats.avgNum * stats.avgNum), 30)>>
       ELSE <<>>)
      \o
      (IF volatile
       THEN <<alert("unusual_pricing", stats.priceVolatility, 25)>>
       ELSE <<>>)

\* lines 116-171
generatePriceAlerts(productStats) ==
  StableSort(Concat([k \in 1..Len(productStats) |-> ProductAlerts(productStats[k])]),
             ByDeviationDesc)

(***************************************************************************)
(* The analyzer as a state machine: an input is drawn, then each exported   *)
(* function is applied to it.                                               *)
(***************************************************************************)
LineItems == [productNumber : Products, unitPrice : Prices]

\* The invoice lists with at most MaxInvoices invoices and MaxItems line items
\* in all, every invoice with a line item.  The product numbers are only
\* compared for equality, so the first line item is taken to be of FirstProduct;
\* the document dates are only compared with each other, so the dates in use are
\* taken to be the first ones of Dates.
InitAnalyzer ==
  /\ \E n \in 1..MaxInvoices :
       \E cnt \in [1..n -> 1..MaxItems] :
         /\ SumSeq(cnt) <= MaxItems
         /\ \E dates \in [1..n -> Dates] :
              \E flat \in [1..SumSeq(cnt) -> LineItems] :
                /\ {dates[i] : i \in 1..n} = 1..Cardinality({dates[i] : i \in 1..n})
                /\ flat[1].productNumber = FirstProduct
                /\ anInvoices =
                  [i \in 1..n |->
                     [documentNumber |-> i,
                      documentDate   |-> dates[i],
                      lineItems      |-> SubSeq(flat, SumSeq(SubSeq(cnt, 1, i - 1)) + 1,
                                                SumSeq(SubSeq(cnt, 1, i)))]]
  /\ anCalled = {}
  /\ anThreshold = 0
  /\ anChanges = <<>>
  /\ anStats = <<>>
  /\ anAlerts = <<>>
  /\ PackSizeIdle
  /\ CsvIdle
  /\ MiddlewareIdle
  /\ ImportIdle
  /\ OthersIdle
  /\ DashboardIdle

AnalyzePriceChanges ==
  /\ anCalled = {}
  /\ anCalled' = anCalled \cup {"analyzePriceChanges"}
  /\ \E threshold \in Thresholds :
       /\ anThreshold' = threshold
       /\ anChanges' = analyzePriceChanges(anInvoices, threshold)
  /\ UNCHANGED <<anInvoices, anStats, anAlerts, pkVars, csvVars, mwVars, imVars, dsVars, otherVars>>

GeneratePriceAlerts ==
  /\ anCalled = {}
  /\ anCalled' = anCalled \cup {"generatePriceAlerts"}
  /\ anStats' = calculateProductStats(anInvoices)
  /\ anAlerts' = generatePriceAlerts(anStats')
  /\ UNCHANGED <<anInvoices, anThreshold, anChanges, pkVars, csvVars, mwVars, imVars, dsVars, otherVars>>

NextAnalyzer == AnalyzePriceChanges \/ GeneratePriceAlerts

SpecAnalyzer == InitAnalyzer /\ [][NextAnalyzer]_vars

(***************************************************************************)
(* Strings.  A string is a sequence of one-character strings.               *)
(***************************************************************************)
LowerLetters == <<"a", "b", "c", "d", "e", "f", "g", "h", "i", "j", "k", "l", "m",
                  "n", "o", "p", "q", "r", "s", "t", "u", "v", "w", "x", "y", "z">>
UpperLetters == <<"A", "B", "C", "D", "E", "F", "G", "H", "I", "J", "K", "L", "M",
                  "N", "O", "P", "Q", "R", "S", "T", "U", "V", "W", "X", "Y", "Z">>
Digits == <<"0", "1", "2", "3", "4", "5", "6", "7", "8", "9">>

Range(s) == {s[i] : i \in DOMAIN s}
IndexIn(c, s) == CHOOSE i \in DOMAIN s : s[i] = c

IsDigit(c) == c \in Range(Digits)                                  \* \d
IsLetter(c) == c \in Range(LowerLetters) \cup Range(UpperLetters)  \* [a-z] with /i
IsSpace(c) == c \in {" ", "\t"}                                    \* \s
DigitValue(c) == IndexIn(c, Digits) - 1

LowerChar(c) == IF c \in Range(UpperLetters) THEN LowerLetters[IndexIn(c, UpperLetters)] ELSE c
UpperChar(c) == IF c \in Range(LowerLetters) THEN UpperLetters[IndexIn(c, LowerLetters)] ELSE c
ToLowerCase(s) == [i \in DOMAIN s |-> LowerChar(s[i])]
ToUpperCase(s) == [i \in DOMAIN s |-> UpperChar(s[i])]

\* String.prototype.trim
Trim(s) ==
  IF \A i \in DOMAIN s : IsSpace(s[i]) THEN <<>>
  ELSE LET first == CHOOSE i \in DOMAIN s :
                      ~IsSpace(s[i]) /\ \A j \in 1..(i - 1) : IsSpace(s[j])
           last  == CHOOSE i \in DOMAIN s :
                      ~IsSpace(s[i]) /\ \A j \in (i + 1)..Len(s) : IsSpace(s[j])
       IN  SubSeq(s, first, last)

\* the index after the longest run of characters of a class that starts at i
\* (a greedy X* of a regular expression)
SkipWhile(s, i, Class(_)) ==
  CHOOSE j \in i..(Len(s) + 1) :
    /\ \A k \in i..(j - 1) : Class(s[k])
    /\ j <= Len(s) => ~Class(s[j])

\* \d+ at i: the index after it, or 0 when there is no digit at i
ScanDigits(s, i) ==
  IF i < 1 \/ i > Len(s) THEN 0
  ELSE LET j == SkipWhile(s, i, IsDigit) IN IF j = i THEN 0 ELSE j

\* \d+(?:\.\d+)? at i: the index after it, or 0 when there is no digit at i
ScanNumber(s, i) ==
  LET j == ScanDigits(s, i)
  IN  IF j = 0 THEN 0
      ELSE IF j <= Len(s) /\ s[j] = "." /\ ScanDigits(s, j + 1) # 0
           THEN ScanDigits(s, j + 1)
           ELSE j

\* \d+\.\d+ at i: the index after it, or 0
ScanDecimal(s, i) ==
  LET j == ScanDigits(s, i)
  IN  IF j # 0 /\ j <= Len(s) /\ s[j] = "." THEN ScanDigits(s, j + 1) ELSE 0

\* X+$ at i for a class X: TRUE when the rest of s from i is a non-empty run of X
RestIs(s, i, Class(_)) == i >= 1 /\ i <= Len(s) /\ SkipWhile(s, i, Class) = Len(s) + 1

\* (a|b)$ at i: the rest of s from i is one of the words
RestIn(s, i, words) == i >= 1 /\ i <= Len(s) + 1 /\ SubSeq(s, i, Len(s)) \in words

RECURSIVE DigitsValue(_)
\* the number a string of digits denotes
DigitsValue(s) ==
  IF s = <<>> THEN 0 ELSE 10 * DigitsValue(SubSeq(s, 1, Len(s) - 1)) + DigitValue(s[Len(s)])

RECURSIVE Pow10(_)
Pow10(k) == IF k = 0 THEN 1 ELSE 10 * Pow10(k - 1)

\* a non-negative decimal number, the quotient num / den
Number(num, den) == [num |-> num, den |-> den]
Times(x, y) == Number(x.num * y.num, x.den * y.den)
SameNumber(x, y) == x.num * y.den = y.num * x.den

\* parseFloat of a string matched by \d+(?:\.\d+)?
ParseFloat(s) ==
  LET j == ScanDigits(s, 1)
  IN  IF j = Len(s) + 1 THEN Number(DigitsValue(s), 1)
      ELSE Number(DigitsValue(SubSeq(s, 1, j - 1) \o SubSeq(s, j + 1, Len(s))),
                  Pow10(Len(s) - j))

\* parseInt of a string matched by \d+
ParseInt(s) == Number(DigitsValue(s), 1)

(***************************************************************************)
(* csv-parser.ts: parsePackSize                                             *)
(***************************************************************************)
PackSizeInfo(units, size, unitType, totalUnits) ==
  [units |-> units, size |-> size, unitType |-> unitType, totalUnits |-> totalUnits]

\* line 112 without the trim
NormalizeNoTrim(packSize) == ToLowerCase(packSize)

\* line 112: packSize.trim().toLowerCase()
Normalize(packSize) == ToLowerCase(Trim(packSize))

\* lines 107-191
parsePackSize(packSize) ==
  LET s == Normalize(packSize)
      one == Number(1, 1)
      \* Pattern 1  /^(\d+(?:\.\d+)?)\s*\/\s*(\d+(?:\.\d+)?)\s*([a-z]+)$/i
      a1 == ScanNumber(s, 1)
      a2 == SkipWhile(s, a1, IsSpace)
      a3 == SkipWhile(s, a2 + 1, IsSpace)
      a4 == ScanNumber(s, a3)
      a5 == SkipWhile(s, a4, IsSpace)
      slashMatch == /\ a1 # 0 /\ a2 <= Len(s) /\ s[a2] = "/"
                    /\ a4 # 0 /\ RestIs(s, a5, IsLetter)
      \* Pattern 2  /^(\d+(?:\.\d+)?)\s*([a-z]+)$/i
      b1 == ScanNumber(s, 1)
      b2 == SkipWhile(s, b1, IsSpace)
      simpleMatch == b1 # 0 /\ RestIs(s, b2, IsLetter)
      \* Pattern 3  /^(\d+)\s*(ea|each)$/i
      c1 == ScanDigits(s, 1)
      c2 == SkipWhile(s, c1, IsSpace)
      countMatch == c1 # 0 /\ RestIn(s, c2, {<<"e", "a">>, <<"e", "a", "c", "h">>})
      \* Pattern 4  /^(\d+)\s*\/\s*#(\d+)\s*(cn|can)$/i
      d1 == ScanDigits(s, 1)
      d2 == SkipWhile(s, d1, IsSpace)
      d3 == SkipWhile(s, d2 + 1, IsSpace)
      d4 == ScanDigits(s, d3 + 1)
      d5 == SkipWhile(s, d4, IsSpace)
      canMatch == /\ d1 # 0 /\ d2 <= Len(s) /\ s[d2] = "/"
                  /\ d3 <= Len(s) /\ s[d3] = "#" /\ d4 # 0
                  /\ RestIn(s, d5, {<<"c", "n">>, <<"c", "a", "n">>})
      \* Pattern 5  /^(\d+\.\d+)\s*([a-z]+)$/i
      e1 == ScanDecimal(s, 1)
      e2 == SkipWhile(s, e1, IsSpace)
      decimalMatch == e1 # 0 /\ RestIs(s, e2, IsLetter)
  IN  IF s = <<>> THEN PackSizeInfo(one, <<>>, <<>>, one)
      ELSE IF slashMatch
      THEN PackSizeInfo(ParseFloat(SubSeq(s, 1, a1 - 1)),
                        SubSeq(s, a3, a4 - 1),
                        ToUpperCase(SubSeq(s, a5, Len(s))),
                        Times(ParseFloat(SubSeq(s, 1, a1 - 1)),
                              ParseFloat(SubSeq(s, a3, a4 - 1))))
      ELSE IF simpleMatch
      THEN PackSizeInfo(one,
                        SubSeq(s, 1, b1 - 1),
                        ToUpperCase(SubSeq(s, b2, Len(s))),
                        ParseFloat(SubSeq(s, 1, b1 - 1)))
      ELSE IF countMatch
      THEN PackSizeInfo(one, SubSeq(s, 1, c1 - 1), <<"E", "A">>,
                        ParseInt(SubSeq(s, 1, c1 - 1)))
      ELSE IF canMatch
      THEN PackSizeInfo(ParseInt(SubSeq(s, 1, d1 - 1)),
                        <<"#">> \o SubSeq(s, d3 + 1, d4 - 1),
                        <<"C", "N">>,
                        ParseInt(SubSeq(s, 1, d1 - 1)))
      ELSE IF decimalMatch
      THEN PackSizeInfo(one,
                        SubSeq(s, 1, e1 - 1),
                        ToUpperCase(SubSeq(s, e2, Len(s))),
                        ParseFloat(SubSeq(s, 1, e1 - 1)))
      ELSE PackSizeInfo(one, packSize, <<>>, one)

(***************************************************************************)
(* parsePackSize as a state machine.  The argument is written out from its  *)
(* parts: a number text N, for the slash form a second number text M, a     *)
(* unit word, and the white space around and between them.                  *)
(***************************************************************************)
NumberTexts ==
  {<<"6">>, <<"2", "5">>, <<"2", "0", "0", "0">>, <<"1", "6", ".", "5">>, <<"1", ".", "1">>}
UnitTexts ==
  {<<"O", "Z">>, <<"o", "z">>, <<"L", "b">>, <<"E", "A">>, <<"e", "a", "c", "h">>,
   <<"L", "B", "A">>}
OuterSpaces == {<<>>, <<" ">>, <<"\t", " ">>}
InnerSpaces == {<<>>, <<" ">>}
\* strings of neither form
OtherTexts ==
  {<<>>, <<" ">>, <<"6", "/", "#", "1", "0", " ", "C", "N">>, <<"6", "/", "#", "1", "0", "c", "a", "n">>,
   <<"B", "U", "L", "K">>, <<".", "5", " ", "L", "B">>, <<"6", ".", " ", "O", "Z">>,
   <<"6", "/", "1", "0", " ", "F", "L", " ", "O", "Z">>, <<"4", "/", "5">>, <<"1", "2", " ", "#">>}

InitPackSize ==
  /\ \/ \E n \in NumberTexts, m \in NumberTexts, u \in UnitTexts,
          lead \in OuterSpaces, trail \in OuterSpaces,
          w1 \in InnerSpaces, w2 \in InnerSpaces, w3 \in InnerSpaces :
          /\ pkCase = [form |-> "slash", n |-> n, m |-> m, unit |-> u]
          /\ pkInput = lead \o n \o w1 \o <<"/">> \o w2 \o m \o w3 \o u \o trail
     \/ \E n \in NumberTexts, u \in UnitTexts,
          lead \in OuterSpaces, trail \in OuterSpaces, w1 \in InnerSpaces :
          /\ pkCase = [form |-> "simple", n |-> n, m |-> <<>>, unit |-> u]
          /\ pkInput = lead \o n \o w1 \o u \o trail
     \/ \E t \in OtherTexts :
          /\ pkCase = [form |-> "other", n |-> <<>>, m |-> <<>>, unit |-> <<>>]
          /\ pkInput = t
  /\ pkResult = NoPackSizeInfo
  /\ pkCalled = FALSE
  /\ AnalyzerIdle
  /\ CsvIdle
  /\ MiddlewareIdle
  /\ ImportIdle
  /\ OthersIdle
  /\ DashboardIdle

ParsePackSize ==
  /\ ~pkCalled
  /\ pkCalled' = TRUE
  /\ pkResult' = parsePackSize(pkInput)
  /\ UNCHANGED <<pkInput, pkCase, anVars, csvVars, mwVars, imVars, dsVars, otherVars>>

NextPackSize == ParsePackSize

SpecPackSize == InitPackSize /\ [][NextPackSize]_vars

(***************************************************************************)
(* csv-parser.ts: processInvoiceData                                        *)
(***************************************************************************)
MaxRows == 3

\* parseFloat(text) || 0 for a CSV field
ParseFloatOrZero(text) ==
  LET t == Trim(text)
      j == ScanNumber(t, 1)
  IN  IF j = 0 THEN Number(0, 1) ELSE ParseFloat(SubSeq(t, 1, j - 1))

\* line 276 without the trim
RawDocumentNumber(row) == row.DocumentNumber

\* line 276: row.DocumentNumber.trim()
DocumentNumberOf(row) == Trim(row.DocumentNumber)

\* the index of the invoice of a document number in the Map, or 0
InvoiceIndex(invs, documentNumber) ==
  IF \E i \in DOMAIN invs : invs[i].documentNumber = documentNumber
  THEN CHOOSE i \in DOMAIN invs : invs[i].documentNumber = documentNumber
  ELSE 0

\* lines 273-323: the loop body for one row
ProcessRow(invs, row) ==
  IF row.DocumentNumber = <<>> THEN invs
  ELSE LET documentNumber == DocumentNumberOf(row)
           known == InvoiceIndex(invs, documentNumber)
           invs1 == IF known = 0
                    THEN Append(invs, [documentNumber |-> documentNumber,
                                       documentDate   |-> row.DocumentDate,
                                       lineItems      |-> <<>>,
                                       rawData        |-> <<>>])
                    ELSE invs
           at == IF known = 0 THEN Len(invs1) ELSE known
           lineItem == [productNumber      |-> row.ProductNumber,
                        productDescription |-> row.ProductDescription,
                        unitPrice          |-> ParseFloatOrZero(row.UnitPrice)]
       IN  [invs1 EXCEPT
              ![at].lineItems = IF row.ProductNumber # "" THEN Append(@, lineItem) ELSE @,
              ![at].rawData = Append(@, row)]

RECURSIVE ProcessRows(_, _)
ProcessRows(rows, k) == IF k = 0 THEN <<>> ELSE ProcessRow(ProcessRows(rows, k - 1), rows[k])

\* lines 270-326
processInvoiceData(rows) == ProcessRows(rows, Len(rows))

\* DocumentNumber fields: absent, blank, and two document numbers, one of them
\* also with a trailing blank
DocumentNumberTexts == {<<>>, <<" ">>, <<"A">>, <<"A", " ">>, <<"B">>}
\* the product columns of a row: none, a product with a unit price, or a
\* product with an empty UnitPrice field
ProductColumns ==
  {[ProductNumber |-> "", UnitPrice |-> <<>>],
   [ProductNumber |-> "P1", UnitPrice |-> <<"1", "0">>],
   [ProductNumber |-> "P2", UnitPrice |-> <<>>]}

\* Every row carries its own DocumentDate and ProductDescription (its index), so
\* that the row a field was taken from can be told.
InitCsv ==
  /\ \E n \in 1..MaxRows :
       \E docs \in [1..n -> DocumentNumberTexts], cols \in [1..n -> ProductColumns] :
         csvRows = [i \in 1..n |-> [DocumentNumber     |-> docs[i],
                                    DocumentDate       |-> i,
                                    ProductNumber      |-> cols[i].ProductNumber,
                                    ProductDescription |-> i,
                                    UnitPrice          |-> cols[i].UnitPrice]]
  /\ csvInvoices = <<>>
  /\ csvCalled = FALSE
  /\ AnalyzerIdle
  /\ PackSizeIdle
  /\ MiddlewareIdle
  /\ ImportIdle
  /\ OthersIdle
  /\ DashboardIdle

ProcessInvoiceData ==
  /\ ~csvCalled
  /\ csvCalled' = TRUE
  /\ csvInvoices' = processInvoiceData(csvRows)
  /\ UNCHANGED <<csvRows, anVars, pkVars, mwVars, imVars, dsVars, otherVars>>

NextCsv == ProcessInvoiceData

SpecCsv == InitCsv /\ [][NextCsv]_vars

(***************************************************************************)
(* middleware.ts                                                            *)
(***************************************************************************)
StartsWith(s, prefix) == Len(s) >= Len(prefix) /\ SubSeq(s, 1, Len(prefix)) = prefix
EndsWith(s, suffix) ==
  Len(s) >= Len(suffix) /\ SubSeq(s, Len(s) - Len(suffix) + 1, Len(s)) = suffix

DashboardPath == <<"/", "d", "a", "s", "h", "b", "o", "a", "r", "d">>
\* a sign-in page under the protected prefix
ProtectedSignInPath == DashboardPath \o <<"/", "s", "i", "g", "n", "i", "n">>
SignInPath == <<"/", "a", "u", "t", "h", "/", "s", "i", "g", "n", "i", "n">>
SignUpPath == <<"/", "a", "u", "t", "h", "/", "s", "i", "g", "n", "u", "p">>

\* lines 64-75: config.matcher,
\* '/((?!_next/static|_next/image|favicon.ico|.*\\.(?:svg|png|jpg|jpeg|gif|webp)$).*)'
Matcher(path) ==
  /\ StartsWith(path, <<"/">>)
  /\ LET rest == SubSeq(path, 2, Len(path))
     IN  /\ ~StartsWith(rest, <<"_", "n", "e", "x", "t", "/", "s", "t", "a", "t", "i", "c">>)
         /\ ~StartsWith(rest, <<"_", "n", "e", "x", "t", "/", "i", "m", "a", "g", "e">>)
         /\ ~(/\ StartsWith(rest, <<"f", "a", "v", "i", "c", "o", "n">>)
              /\ Len(rest) >= 11
              /\ SubSeq(rest, 9, 11) = <<"i", "c", "o">>)
         /\ \A ext \in {<<"s", "v", "g">>, <<"p", "n", "g">>, <<"j", "p", "g">>, <<"j", "p", "e", "g">>, <<"g", "i", "f">>, <<"w", "e", "b", "p">>} :
              ~EndsWith(rest, <<".">> \o ext)

\* line 47 comparing the whole path
PathIs(s, prefix) == s = prefix

\* lines 47 and 54-55: request.nextUrl.pathname.startsWith(prefix)
PathStartsWith(s, prefix) == StartsWith(s, prefix)

\* lines 4-62
middleware(path, user) ==
  IF ~user /\ PathStartsWith(path, DashboardPath)
  THEN Response("redirect", SignInPath)
  ELSE IF user /\ (PathStartsWith(path, SignInPath) \/ PathStartsWith(path, SignUpPath))
  THEN Response("redirect", DashboardPath)
  ELSE Response("next", <<>>)

\* the redirects followed for one request are counted up to this number
MaxRedirects == 2

PathHeads ==
  {<<"/">>, DashboardPath, <<"/", "d", "a", "s", "h">>, SignInPath, SignUpPath, <<"/", "a", "u", "t", "h">>,
   <<"/", "_", "n", "e", "x", "t", "/", "s", "t", "a", "t", "i", "c">>, <<"/", "f", "a", "v", "i", "c", "o", "n", ".", "i", "c", "o">>, <<"/", "a", "b", "o", "u", "t">>}
PathTails == {<<>>, <<"/">>, <<"/", "p", "r", "o", "d", "u", "c", "t", "s">>, <<"x">>, <<"/", "l", "o", "g", "o", ".", "s", "v", "g">>, <<".", "p", "n", "g">>}

InitMiddleware ==
  /\ \E head \in PathHeads, tail \in PathTails : mwPath = head \o tail
  /\ mwUser \in BOOLEAN
  /\ mwResponse = Pending
  /\ mwRedirects = 0
  /\ AnalyzerIdle
  /\ PackSizeIdle
  /\ CsvIdle
  /\ ImportIdle
  /\ OthersIdle
  /\ DashboardIdle

\* a request the matcher selects runs the middleware
Middleware ==
  /\ mwResponse = Pending
  /\ Matcher(mwPath)
  /\ mwResponse' = middleware(mwPath, mwUser)
  /\ UNCHANGED <<mwPath, mwUser, mwRedirects, anVars, pkVars, csvVars, imVars, dsVars, otherVars>>

\* a request the matcher does not select is served without the middleware
Unmatched ==
  /\ mwResponse = Pending
  /\ ~Matcher(mwPath)
  /\ mwResponse' = Response("unmatched", <<>>)
  /\ UNCHANGED <<mwPath, mwUser, mwRedirects, anVars, pkVars, csvVars, imVars, dsVars, otherVars>>

\* lines 49 and 58: the browser follows NextResponse.redirect with a request
\* for the target, which carries the same cookies
FollowRedirect ==
  /\ mwResponse.kind = "redirect"
  /\ mwRedirects < MaxRedirects
  /\ mwPath' = mwResponse.location
  /\ mwResponse' = Pending
  /\ mwRedirects' = mwRedirects + 1
  /\ UNCHANGED <<mwUser, anVars, pkVars, csvVars, imVars, dsVars, otherVars>>

NextMiddleware == Middleware \/ Unmatched \/ FollowRedirect

SpecMiddleware == InitMiddleware /\ [][NextMiddleware]_vars

(***************************************************************************)
(* data-importer.ts and the import script, over the tables of the schema    *)
(***************************************************************************)
ImportAlertThreshold == 20

Restaurants == {"R1", "R2"}
\* Document numbers are only compared for equality: an invoice not seen before
\* takes the first document number that is not in use.
DocumentNumbers == <<"D1", "D2">>
FileSizes == {1, 2}
ImportPrices == {0, 1, 10, 12}
LineItem(productNumber, unitPrice) ==
  [productNumber |-> productNumber, unitPrice |-> unitPrice]
LineItemLists ==
  {<<>>} \cup {<<LineItem("P1", p)>> : p \in ImportPrices}
         \cup {<<LineItem("P1", 10), LineItem("P2", 12)>>,
               <<LineItem("P1", 10), LineItem("P1", 12)>>}

StoredDocuments == {dbInvoices[i].document_number : i \in DOMAIN dbInvoices}

\* the document numbers a next invoice of a file can carry: within a file they
\* are distinct (processInvoiceData)
NextDocuments(fileDocs) ==
  LET unused == {k \in DOMAIN DocumentNumbers :
                   DocumentNumbers[k] \notin StoredDocuments \cup fileDocs}
  IN  (StoredDocuments \ fileDocs)
        \cup {DocumentNumbers[k] : k \in {k \in unused : \A j \in unused : k <= j}}

\* lines 133-137 (script: 198-202), with the restaurant in the filter
ExistingInvoiceOfRestaurant(documentNumber, restaurantId) ==
  LET found == {i \in DOMAIN dbInvoices :
                  /\ dbInvoices[i].document_number = documentNumber
                  /\ dbInvoices[i].restaurant_id = restaurantId}
  IN  Cardinality(found) = 1

\* lines 133-139 (script: 198-204): select('id').eq('document_number', ...)
\* .single() gives a row when exactly one row matches, and null otherwise; the
\* restaurant of the import plays no part in it
ExistingInvoice(documentNumber, restaurantId) ==
  LET found == {i \in DOMAIN dbInvoices : dbInvoices[i].document_number = documentNumber}
  IN  Cardinality(found) = 1

\* lines 147-163 (script: 155-170): the row of an invoice
InvoiceRow(invoice, restaurantId) ==
  [id              |-> Len(dbInvoices) + 1,
   restaurant_id   |-> restaurantId,
   document_number |-> invoice.documentNumber,
   document_date   |-> invoice.documentDate]

\* lines 173-186 (script: 225-228): the rows of its line items
LineItemRows(invoice, invoiceId) ==
  [k \in DOMAIN invoice.lineItems |->
     [invoice_id     |-> invoiceId,
      product_number |-> invoice.lineItems[k].productNumber,
      unit_price     |-> invoice.lineItems[k].unitPrice]]

\* lines 218-242: product_master gets the product unless it has it
WithProduct(products, productNumber) == products \cup {productNumber}

\* lines 247-254
PriceHistoryRow(item, invoice, invoiceId, restaurantId) ==
  [product_number |-> item.productNumber,
   restaurant_id  |-> restaurantId,
   price          |-> item.unitPrice,
   invoice_date   |-> invoice.documentDate,
   invoice_id     |-> invoiceId]

\* lines 280-285: the rows of the product and restaurant dated before invoiceDate
EarlierPrices(productNumber, restaurantId, invoiceDate) ==
  {i \in DOMAIN dbPriceHistory :
     /\ dbPriceHistory[i].product_number = productNumber
     /\ dbPriceHistory[i].restaurant_id = restaurantId
     /\ dbPriceHistory[i].invoice_date < invoiceDate}

\* lines 286-287: order('invoice_date', {ascending: false}).limit(1); among the
\* rows of the latest date the database returns any one
FirstNewest(rows) ==
  {i \in rows : \A j \in rows :
     dbPriceHistory[i].invoice_date >= dbPriceHistory[j].invoice_date}

\* lines 291-294: Math.abs(percentageChange) >= 20
AlertSignificant(previousPrice, currentPrice) ==
  IF previousPrice = 0
  THEN currentPrice # 0             \* x / 0 is Infinity, 0 / 0 is NaN
  ELSE Abs(currentPrice - previousPrice) * 100 >= ImportAlertThreshold * previousPrice

\* the column percentage_change DECIMAL(5,2) takes null (Infinity in JSON) and
\* the numbers below 1000 in absolute value
FitsPercentageColumn(change) == change.infinite \/ Abs(change.hundredths) < 100000

\* lines 297-306
PriceAlertRow(productNumber, previousPrice, currentPrice, invoiceDate, restaurantId) ==
  [restaurant_id     |-> restaurantId,
   product_number    |-> productNumber,
   previous_price    |-> previousPrice,
   new_price         |-> currentPrice,
   percentage_change |-> RoundedChange(previousPrice, currentPrice),
   alert_type        |-> IF currentPrice > previousPrice THEN "increase" ELSE "decrease",
   invoice_date      |-> invoiceDate]

\* lines 272-318: the price_alerts table after checkAndCreatePriceAlert when the
\* query returns row `previous` of price_history (0: no row)
AlertsAfterCheck(previous, productNumber, currentPrice, invoiceDate, restaurantId) ==
  IF previous = 0 THEN dbPriceAlerts
  ELSE LET previousPrice == dbPriceHistory[previous].price
           row == PriceAlertRow(productNumber, previousPrice, currentPrice,
                                invoiceDate, restaurantId)
       IN  IF /\ AlertSignificant(previousPrice, currentPrice)
              /\ FitsPercentageColumn(row.percentage_change)
           THEN Append(dbPriceAlerts, row)
           ELSE dbPriceAlerts

\* lines 130 and 204-205: on to the next invoice; after the last one the call
\* returns
AfterInvoice(run) ==
  IF run.left > 1
  THEN [run EXCEPT !.pc = "check", !.left = @ - 1, !.invoice = NoInvoice,
                   !.invoiceId = 0, !.item = 0]
  ELSE NoRun

ImportInit ==
  /\ ImportIdle
  /\ OthersIdle
  /\ DashboardIdle
  /\ AnalyzerIdle
  /\ PackSizeIdle
  /\ CsvIdle
  /\ MiddlewareIdle

\* line 129 (called at line 100): importInvoicesToDatabase is called with the
\* invoices of a file, which are chosen as the loop reaches them
ImportInvoicesToDatabase ==
  /\ im.pc = "idle"
  /\ \E restaurantId \in Restaurants, size \in FileSizes :
       im' = [NoRun EXCEPT !.pc = "check", !.restaurantId = restaurantId, !.left = size]
  /\ UNCHANGED <<dbVars, anVars, pkVars, csvVars, mwVars, dsVars, otherVars>>

\* lines 130-142: the next invoice of the list and the check for a stored one
CheckExisting ==
  /\ im.pc = "check"
  /\ \E documentNumber \in NextDocuments(im.fileDocs), documentDate \in Dates,
        lineItems \in LineItemLists :
       LET invoice == [documentNumber |-> documentNumber,
                       documentDate   |-> documentDate,
                       lineItems      |-> lineItems]
           run == [im EXCEPT !.fileDocs = @ \cup {documentNumber}]
       IN  im' = IF ExistingInvoice(documentNumber, im.restaurantId)
                 THEN AfterInvoice(run)
                 ELSE [run EXCEPT !.pc = "insert", !.invoice = invoice]
  /\ UNCHANGED <<dbVars, anVars, pkVars, csvVars, mwVars, dsVars, otherVars>>

\* lines 144-169: the invoice is inserted, or the insertion fails and throws
InsertInvoice ==
  /\ im.pc = "insert"
  /\ \/ /\ dbInvoices' = Append(dbInvoices, InvoiceRow(im.invoice, im.restaurantId))
        /\ im' = IF Len(im.invoice.lineItems) > 0
                 THEN [im EXCEPT !.pc = "items", !.invoiceId = Len(dbInvoices) + 1]
                 ELSE AfterInvoice(im)
     \/ /\ im' = NoRun
        /\ UNCHANGED dbInvoices
  /\ UNCHANGED <<dbLineItems, dbProducts, dbPriceHistory, dbPriceAlerts,
                 anVars, pkVars, csvVars, mwVars, dsVars, otherVars>>

\* lines 171-194: the line items are inserted, or the insertion fails and throws
InsertLineItems ==
  /\ im.pc = "items"
  /\ \/ /\ dbLineItems' = dbLineItems \o LineItemRows(im.invoice, im.invoiceId)
        /\ im' = [im EXCEPT !.pc = "update", !.item = 1]
     \/ /\ im' = NoRun
        /\ UNCHANGED dbLineItems
  /\ UNCHANGED <<dbInvoices, dbProducts, dbPriceHistory, dbPriceAlerts,
                 anVars, pkVars, csvVars, mwVars, dsVars, otherVars>>

\* lines 215-266 and 272-318: one line item in updateProductMasterAndPriceHistory
UpdateProduct ==
  /\ im.pc = "update"
  /\ LET item == im.invoice.lineItems[im.item]
         earlier == EarlierPrices(item.productNumber, im.restaurantId,
                                  im.invoice.documentDate)
     IN  /\ dbProducts' = WithProduct(dbProducts, item.productNumber)
         /\ dbPriceHistory' =
              Append(dbPriceHistory,
                     PriceHistoryRow(item, im.invoice, im.invoiceId, im.restaurantId))
         /\ \E previous \in IF earlier = {} THEN {0} ELSE FirstNewest(earlier) :
              dbPriceAlerts' =
                AlertsAfterCheck(previous, item.productNumber, item.unitPrice,
                                 im.invoice.documentDate, im.restaurantId)
         /\ im' = IF im.item < Len(im.invoice.lineItems)
                  THEN [im EXCEPT !.item = @ + 1]
                  ELSE AfterInvoice(im)
  /\ UNCHANGED <<dbInvoices, dbLineItems, anVars, pkVars, csvVars, mwVars, dsVars, otherVars>>

\* script, lines 195-242: one invoice in processCSVFile; a failed insertion of
\* the invoice or of its line items is passed over
ProcessCSVFile ==
  /\ im.pc = "idle"
  /\ \E restaurantId \in Restaurants, documentNumber \in NextDocuments({}),
        documentDate \in Dates, lineItems \in LineItemLists :
       LET invoice == [documentNumber |-> documentNumber,
                       documentDate   |-> documentDate,
                       lineItems      |-> lineItems]
       IN  /\ ~ExistingInvoice(documentNumber, restaurantId)
           /\ dbInvoices' = Append(dbInvoices, InvoiceRow(invoice, restaurantId))
           /\ \/ dbLineItems' = dbLineItems \o LineItemRows(invoice, Len(dbInvoices) + 1)
              \/ UNCHANGED dbLineItems
  /\ UNCHANGED <<dbProducts, dbPriceHistory, dbPriceAlerts, im,
                 anVars, pkVars, csvVars, mwVars, dsVars, otherVars>>

NextImport ==
  \/ ImportInvoicesToDatabase
  \/ CheckExisting
  \/ InsertInvoice
  \/ InsertLineItems
  \/ UpdateProduct
  \/ ProcessCSVFile

SpecImport == ImportInit /\ [][NextImport]_vars

(***************************************************************************)
(* analytics-simple.ts (src/unnamed/part_002): the dashboard queries        *)
(***************************************************************************)
MaxPurchases == 4

\* the (product_number, pack_size) pairs of invoice items.  The rows of a pair
\* are put next to each other: the query's rows are grouped by pair before
\* anything else is done with them, keeping the order within each pair.
ProductPacks == <<[product_number |-> "P1", pack_size |-> "A"],
                  [product_number |-> "P1", pack_size |-> "B"]>>
ItemPrices == {0, 20, 21, 24}
ItemDates == {1, 2}
Limits == {1, 6}

\* lines 486-499: a row of invoice_items with its invoice's date
InvoiceItem(pack, unit_price, invoice_date) ==
  [product_number |-> pack.product_number,
   pack_size      |-> pack.pack_size,
   unit_price     |-> unit_price,
   invoice_date   |-> invoice_date]

\* line 514 with the product number alone
ProductKey(item) == <<item.product_number, "A">>

\* line 514: `${item.product_number}|${item.pack_size}`
PackKey(item) == <<item.product_number, item.pack_size>>

\* the elements of s that satisfy Test, in order
Filter(s, Test(_)) ==
  Concat([i \in 1..Len(s) |-> IF Test(s[i]) THEN <<s[i]>> ELSE <<>>])

\* lines 531-534: comparator of items.sort
ByInvoiceDate(a, b) == GetTime(a.invoice_date) < GetTime(b.invoice_date)

\* lines 542-547: firstPrice > 0 && lastPrice > firstPrice && percent > 5
IncreasedOverFivePercent(firstPrice, lastPrice) ==
  /\ firstPrice > 0
  /\ lastPrice > firstPrice
  /\ (lastPrice - firstPrice) * 100 > 5 * firstPrice

\* lines 524-564: the entry of one product and pack size, if any
PackIncrease(key, items) ==
  LET sortedItems == StableSort(items, ByInvoiceDate)
      firstItem == sortedItems[1]
      lastItem == sortedItems[Len(sortedItems)]
  IN  IF Len(items) < 2 THEN <<>>
      ELSE IF IncreasedOverFivePercent(firstItem.unit_price, lastItem.unit_price)
      THEN <<[product_number     |-> key[1],
              pack_size          |-> key[2],
              current_price      |-> lastItem.unit_price,
              previous_price     |-> firstItem.unit_price,
              price_increase     |-> lastItem.unit_price - firstItem.unit_price,
              last_purchase_date |-> lastItem.invoice_date,
              purchase_frequency |-> Len(items)]>>
      ELSE <<>>

\* line 568: b.price_increase_percent - a.price_increase_percent < 0
ByIncreasePercentDesc(a, b) ==
  a.price_increase * b.previous_price > b.price_increase * a.previous_price

\* lines 506-572, for the rows the query returned
getPriceIncreases(invoiceItems, limit) ==
  LET keys == Distinct([i \in 1..Len(invoiceItems) |-> PackKey(invoiceItems[i])])
      priceIncreases ==
        Concat([k \in 1..Len(keys) |->
                  LET Mine(item) == PackKey(item) = keys[k]
                  IN  PackIncrease(keys[k], Filter(invoiceItems, Mine))])
      sorted == StableSort(priceIncreases, ByIncreasePercentDesc)
  IN  SubSeq(sorted, 1, IF limit < Len(sorted) THEN limit ELSE Len(sorted))

\* the rows of invoice_items, in the order the query returns them
InitPriceIncreases ==
  /\ \E n \in 1..MaxPurchases :
       \E first \in 1..n, price \in [1..n -> ItemPrices], date \in [1..n -> ItemDates] :
         dsItems = [i \in 1..n |->
                      InvoiceItem(ProductPacks[IF i <= first THEN 1 ELSE 2],
                                  price[i], date[i])]
  /\ dsInvoices = <<>>
  /\ dsArg = 0
  /\ dsTimeZone = "UTC"
  /\ dsResult = <<>>
  /\ dsCalled = "no"
  /\ AnalyzerIdle
  /\ PackSizeIdle
  /\ CsvIdle
  /\ MiddlewareIdle
  /\ ImportIdle
  /\ OthersIdle

\* lines 481-577: getPriceIncreases(limit), the query having returned its rows
\* (a failed query ends the call with no rows, lines 501-504)
GetPriceIncreases ==
  /\ dsCalled = "no"
  /\ \E limit \in Limits :
       /\ dsArg' = limit
       /\ dsCalled' = "ok"
       /\ dsResult' = getPriceIncreases(dsItems, limit)
  /\ UNCHANGED <<dsInvoices, dsItems, dsTimeZone, anVars, pkVars, csvVars, mwVars, imVars, otherVars>>

NextPriceIncreases == GetPriceIncreases

SpecPriceIncreases == InitPriceIncreases /\ [][NextPriceIncreases]_vars

\* ---------------------------------------------------------------------------
\* getMonthlySpendTrends (analytics-simple).  invoice_date is a date-only
\* string 'YYYY-MM-DD', written here <<year, month, day>>.  new Date() reads
\* such a string as midnight UTC, and getFullYear() / getMonth() answer in the
\* time zone of the runtime: west of UTC that instant is still the evening of
\* the day before.
\* ---------------------------------------------------------------------------
MaxStoredInvoices == 3

InvoiceDates ==
  {<<2024, 12, 1>>, <<2024, 12, 15>>, <<2025, 1, 1>>, <<2025, 1, 15>>,
   <<2025, 2, 1>>}

NetAmounts == {10, 25}

TimeZones == {"UTC", "America/Chicago", "Asia/Tokyo"}

MonthCounts == {1, 12}

WestOfUTC(timeZone) == timeZone = "America/Chicago"

\* the (year, month) that getFullYear() and getMonth() + 1 give for
\* new Date(invoice_date).
LocalMonth(invoice_date, timeZone) ==
  IF WestOfUTC(timeZone) /\ invoice_date[3] = 1
    THEN IF invoice_date[2] = 1
           THEN <<invoice_date[1] - 1, 12>>
           ELSE <<invoice_date[1], invoice_date[2] - 1>>
    ELSE <<invoice_date[1], invoice_date[2]>>

\* .order('invoice_date'): 'YYYY-MM-DD' strings compare as the dates do.
ByInvoiceDateColumn(a, b) ==
  \/ a.invoice_date[1] < b.invoice_date[1]
  \/ /\ a.invoice_date[1] = b.invoice_date[1]
     /\ \/ a.invoice_date[2] < b.invoice_date[2]
        \/ /\ a.invoice_date[2] = b.invoice_date[2]
           /\ a.invoice_date[3] < b.invoice_date[3]

ByYearThenMonth(a, b) ==
  IF a.year # b.year THEN a.year < b.year ELSE a.month < b.month

\* Array.prototype.slice(-count) for count >= 1.
LastOf(s, count) ==
  SubSeq(s, (IF Len(s) > count THEN Len(s) - count ELSE 0) + 1, Len(s))

MonthlyTrend(monthKey, invoices, timeZone) ==
  LET ofMonth == Filter(invoices,
                        LAMBDA invoice : LocalMonth(invoice.invoice_date, timeZone) = monthKey)
  IN  [year          |-> monthKey[1],
       month         |-> monthKey[2],
       total_spend   |-> SumSeq([i \in 1..Len(ofMonth) |-> ofMonth[i].net_amount]),
       invoice_count |-> Len(ofMonth)]

getMonthlySpendTrends(storedInvoices, months, timeZone) ==
  LET invoices == StableSort(storedInvoices, ByInvoiceDateColumn)
      keys     == Distinct([i \in 1..Len(invoices) |->
                              LocalMonth(invoices[i].invoice_date, timeZone)])
      trends   == [k \in 1..Len(keys) |-> MonthlyTrend(keys[k], invoices, timeZone)]
  IN  LastOf(StableSort(trends, ByYearThenMonth), months)

InitMonthlyTrends ==
  /\ \E n \in 0..MaxStoredInvoices :
       \E date \in [1..n -> InvoiceDates], amount \in [1..n -> NetAmounts] :
         dsInvoices = [i \in 1..n |-> [invoice_date |-> date[i], net_amount |-> amount[i]]]
  /\ dsTimeZone \in TimeZones
  /\ dsItems = <<>>
  /\ dsArg = 0
  /\ dsResult = <<>>
  /\ dsCalled = "no"
  /\ AnalyzerIdle
  /\ PackSizeIdle
  /\ CsvIdle
  /\ MiddlewareIdle
  /\ ImportIdle
  /\ OthersIdle

GetMonthlySpendTrends ==
  /\ dsCalled = "no"
  /\ \E months \in MonthCounts :
       /\ dsArg' = months
       /\ dsResult' = getMonthlySpendTrends(dsInvoices, months, dsTimeZone)
  /\ dsCalled' = "ok"
  /\ UNCHANGED <<dsInvoices, dsItems, dsTimeZone, anVars, pkVars, csvVars, mwVars, imVars, otherVars>>

NextMonthlyTrends == GetMonthlySpendTrends

SpecMonthlyTrends == InitMonthlyTrends /\ [][NextMonthlyTrends]_vars

\* ---------------------------------------------------------------------------
\* getLocationComparison (analytics-simple).  The select joins
\* location:locations!inner(name): an inner join, which leaves out every
\* invoice that has no row of locations.  unique_products (a second query over
\* invoice_items) and avg_invoice_value are not part of the rows modelled.
\* ---------------------------------------------------------------------------
NoLocation == "null"

LocationNames == {"Bee Caves", "360"}

LocationDates == {<<2025, 1, 1>>, <<2025, 1, 15>>}

\* invoice.location?.name || 'Unknown'
LocationName(invoice) ==
  IF invoice.location = NoLocation THEN "Unknown" ELSE invoice.location

\* the rows of locations!inner(name)
InnerJoinLocations(storedInvoices) ==
  Filter(storedInvoices, LAMBDA invoice : invoice.location # NoLocation)

\* a.invoice_date > b.invoice_date on 'YYYY-MM-DD' strings; '' is below all
DateStringAfter(a, b) ==
  IF b = <<>> THEN a # <<>>
  ELSE IF a = <<>> THEN FALSE
  ELSE \/ a[1] > b[1]
       \/ (a[1] = b[1] /\ a[2] > b[2])
       \/ (a[1] = b[1] /\ a[2] = b[2] /\ a[3] > b[3])

RECURSIVE LastInvoiceDate(_)
LastInvoiceDate(invoices) ==
  IF invoices = <<>> THEN <<>>
  ELSE LET before == LastInvoiceDate(SubSeq(invoices, 1, Len(invoices) - 1))
           date   == invoices[Len(invoices)].invoice_date
       IN  IF DateStringAfter(date, before) THEN date ELSE before

LocationStats(location_name, invoices) ==
  LET ofLocation == Filter(invoices, LAMBDA invoice : LocationName(invoice) = location_name)
  IN  [location_name     |-> location_name,
       total_spend       |-> SumSeq([i \in 1..Len(ofLocation) |-> ofLocation[i].net_amount]),
       total_invoices    |-> Len(ofLocation),
       last_invoice_date |-> LastInvoiceDate(ofLocation)]

ByTotalSpendDesc(a, b) == a.total_spend > b.total_spend

getLocationComparison(storedInvoices) ==
  LET invoices == StableSort(InnerJoinLocations(storedInvoices), ByInvoiceDateColumn)
      names    == Distinct([i \in 1..Len(invoices) |-> LocationName(invoices[i])])
      result   == [k \in 1..Len(names) |-> LocationStats(names[k], invoices)]
  IN  StableSort(result, ByTotalSpendDesc)

InitLocationComparison ==
  /\ \E n \in 0..MaxStoredInvoices :
       \E location \in [1..n -> LocationNames \cup {NoLocation}],
          date \in [1..n -> LocationDates], amount \in [1..n -> NetAmounts] :
         dsInvoices = [i \in 1..n |-> [invoice_date |-> date[i],
                                       net_amount   |-> amount[i],
                                       location     |-> location[i]]]
  /\ dsTimeZone = "UTC"
  /\ dsItems = <<>>
  /\ dsArg = 0
  /\ dsResult = <<>>
  /\ dsCalled = "no"
  /\ AnalyzerIdle
  /\ PackSizeIdle
  /\ CsvIdle
  /\ MiddlewareIdle
  /\ ImportIdle
  /\ OthersIdle

GetLocationComparison ==
  /\ dsCalled = "no"
  /\ dsResult' = getLocationComparison(dsInvoices)
  /\ dsCalled' = "ok"
  /\ UNCHANGED <<dsInvoices, dsItems, dsArg, dsTimeZone, anVars, pkVars, csvVars, mwVars, imVars, otherVars>>

NextLocationComparison == GetLocationComparison

SpecLocationComparison == InitLocationComparison /\ [][NextLocationComparison]_vars

\* ---------------------------------------------------------------------------
\* getProductPurchaseHistory (lib/supabase/browser.ts) and the Change column
\* of ProductDetailModal.  The query has no ORDER BY: the rows arrive in any
\* order, at most PurchaseHistoryLimit of them.
\* ---------------------------------------------------------------------------
MaxHistory == 3

PurchaseHistoryLimit == 500

HistoryPrices == {0, 10, 12}

PurchaseRow(product_number, unit_price, invoice_date) ==
  [product_number |-> product_number,
   unit_price     |-> unit_price,
   invoice_date   |-> invoice_date]

\* .eq('product_number', productNumber).limit(500)
FetchPurchases(invoiceItems, productNumber) ==
  LET ofProduct == Filter(invoiceItems, LAMBDA item : item.product_number = productNumber)
  IN  SubSeq(ofProduct, 1, IF Len(ofProduct) > PurchaseHistoryLimit
                             THEN PurchaseHistoryLimit ELSE Len(ofProduct))

\* newest first: the comparator with its operands exchanged
ByPurchaseDateDesc(a, b) == GetTime(b.invoice_date) < GetTime(a.invoice_date)

\* new Date(a.invoice_date).getTime() - new Date(b.invoice_date).getTime() < 0
ByPurchaseDate(a, b) == GetTime(a.invoice_date) < GetTime(b.invoice_date)

getProductPurchaseHistory(invoiceItems, productNumber) ==
  LET data == FetchPurchases(invoiceItems, productNumber)
      purchaseHistory == [i \in 1..Len(data) |->
                            [invoice_date |-> data[i].invoice_date,
                             unit_price   |-> data[i].unit_price]]
  IN  StableSort(purchaseHistory, ByPurchaseDate)

\* priceChange of the row at index (1-based) of the rendered table: "New" for
\* null, otherwise the percentage as the fraction num / den.
PriceChange(purchaseHistory, index) ==
  LET item == purchaseHistory[index]
      prevItem == purchaseHistory[index - 1]
  IN  IF index > 1 /\ prevItem.unit_price > 0 /\ item.unit_price >= 0
        THEN [num |-> (item.unit_price - prevItem.unit_price) * 100,
              den |-> prevItem.unit_price]
      ELSE IF index > 1 /\ prevItem.unit_price = 0 /\ item.unit_price > 0
        THEN "New"
      ELSE [num |-> 0, den |-> 1]

InitPurchaseHistory ==
  /\ \E n \in 0..MaxHistory :
       \E product \in [1..n -> Products], price \in [1..n -> HistoryPrices],
          date \in [1..n -> Dates] :
         dsItems = [i \in 1..n |-> PurchaseRow(product[i], price[i], date[i])]
  /\ dsInvoices = <<>>
  /\ dsArg = ""
  /\ dsTimeZone = "UTC"
  /\ dsResult = <<>>
  /\ dsCalled = "no"
  /\ AnalyzerIdle
  /\ PackSizeIdle
  /\ CsvIdle
  /\ MiddlewareIdle
  /\ ImportIdle
  /\ OthersIdle

\* loadPurchaseHistory of the modal: purchaseHistory becomes the rows returned
LoadPurchaseHistory ==
  /\ dsCalled = "no"
  /\ \E productNumber \in Products :
       /\ dsArg' = productNumber
       /\ dsResult' = getProductPurchaseHistory(dsItems, productNumber)
  /\ dsCalled' = "ok"
  /\ UNCHANGED <<dsInvoices, dsItems, dsTimeZone, anVars, pkVars, csvVars, mwVars, imVars, otherVars>>

NextPurchaseHistory == LoadPurchaseHistory

SpecPurchaseHistory == InitPurchaseHistory /\ [][NextPurchaseHistory]_vars

\* ---------------------------------------------------------------------------
\* The four tests for a significant price change, applied to one pair of
\* prices: analyzePriceChanges with its default threshold (price-analyzer.ts),
\* checkAndCreatePriceAlert (data-importer.ts), PriceAnalyzer.calculatePriceChange
\* of the 360 importer (src/unnamed/part_008) and PriceAnalyzer.analyzePrice of
\* the Bee Caves importer (scripts/process-bee-caves-v2.ts).
\* ---------------------------------------------------------------------------
DetectorPrices == {0, 5, 6, 8, 9, 10, 11, 12, 13, 15}

\* price-analyzer.ts line 43: threshold: number = 20
DefaultThreshold == 20

\* process-bee-caves-v2.ts line 109: 0.20, in hundredths
PRICE_THRESHOLD == 20

\* price-analyzer.ts lines 80-85 for one pair of a product's date-adjacent prices
analyzePriceChangesFlags(previous, current) ==
  /\ current # previous
  /\ ExceedsThreshold(previous, current, DefaultThreshold)

\* part_008 lines 307-325: isSignificant
calculatePriceChange(currentPrice, previousPrice) ==
  IF previousPrice = 0 THEN FALSE
  ELSE Abs(currentPrice - previousPrice) * 100 >= 20 * previousPrice

\* process-bee-caves-v2.ts lines 111-125: isAlert
analyzePrice(currentPrice, previousPrice) ==
  IF previousPrice = 0 THEN FALSE
  ELSE Abs(currentPrice - previousPrice) * 100 > PRICE_THRESHOLD * previousPrice

InitDetectors ==
  /\ dtPrevious \in DetectorPrices
  /\ dtCurrent \in DetectorPrices
  /\ dtFlags = NoFlags
  /\ ConcurrentIdle
  /\ DirectoryIdle
  /\ FunctionsIdle
  /\ AnalyzerIdle
  /\ PackSizeIdle
  /\ CsvIdle
  /\ MiddlewareIdle
  /\ ImportIdle
  /\ DashboardIdle

\* the pair is handed to each of the four
DetectPriceChange ==
  /\ dtFlags = NoFlags
  /\ dtFlags' =
       [analyzePriceChanges      |-> analyzePriceChangesFlags(dtPrevious, dtCurrent),
        checkAndCreatePriceAlert |-> AlertSignificant(dtPrevious, dtCurrent),
        calculatePriceChange     |-> calculatePriceChange(dtCurrent, dtPrevious),
        analyzePrice             |-> analyzePrice(dtCurrent, dtPrevious)]
  /\ UNCHANGED <<dtPrevious, dtCurrent, cc, dr, anVars, pkVars, csvVars, mwVars, imVars, dsVars, fnVars>>

NextDetectors == DetectPriceChange

SpecDetectors == InitDetectors /\ [][NextDetectors]_vars

\* ---------------------------------------------------------------------------
\* Two calls of importInvoicesToDatabase at the same time, each with a file of
\* one invoice, on the same database.  Every await of the function is a point
\* where the other call can run: the steps are those of the single call above.
\* ---------------------------------------------------------------------------
ImportRuns == {1, 2}

ConcurrentDates == {1, 2}

ConcurrentLineItemLists == {<<>>, <<LineItem("P1", 10)>>, <<LineItem("P1", 12)>>}

Ready == [NoRun EXCEPT !.pc = "ready"]

InitConcurrentImport ==
  /\ cc = [r \in ImportRuns |-> Ready]
  /\ DetectorsIdle
  /\ DirectoryIdle
  /\ FunctionsIdle
  /\ ImportIdle
  /\ DashboardIdle
  /\ AnalyzerIdle
  /\ PackSizeIdle
  /\ CsvIdle
  /\ MiddlewareIdle

\* lines 129-142: the call starts on its invoice and checks for a stored one
ConcurrentCheckExisting(r) ==
  /\ cc[r].pc = "ready"
  /\ \E restaurantId \in Restaurants,
        documentNumber \in {DocumentNumbers[k] : k \in DOMAIN DocumentNumbers},
        documentDate \in ConcurrentDates, lineItems \in ConcurrentLineItemLists :
       LET invoice == [documentNumber |-> documentNumber,
                       documentDate   |-> documentDate,
                       lineItems      |-> lineItems]
       IN  cc' = [cc EXCEPT ![r] =
                    IF ExistingInvoice(documentNumber, restaurantId)
                    THEN NoRun
                    ELSE [NoRun EXCEPT !.pc = "insert", !.restaurantId = restaurantId,
                                       !.left = 1, !.invoice = invoice]]
  /\ UNCHANGED <<dbVars, im, dtVars, dr, anVars, pkVars, csvVars, mwVars, dsVars, fnVars>>

\* lines 144-169
ConcurrentInsertInvoice(r) ==
  /\ cc[r].pc = "insert"
  /\ \/ /\ dbInvoices' = Append(dbInvoices, InvoiceRow(cc[r].invoice, cc[r].restaurantId))
        /\ cc' = [cc EXCEPT ![r] =
                    IF Len(cc[r].invoice.lineItems) > 0
                    THEN [cc[r] EXCEPT !.pc = "items", !.invoiceId = Len(dbInvoices) + 1]
                    ELSE NoRun]
     \/ /\ cc' = [cc EXCEPT ![r] = NoRun]
        /\ UNCHANGED dbInvoices
  /\ UNCHANGED <<dbLineItems, dbProducts, dbPriceHistory, dbPriceAlerts, im, dtVars, dr,
                 anVars, pkVars, csvVars, mwVars, dsVars, fnVars>>

\* lines 171-194
ConcurrentInsertLineItems(r) ==
  /\ cc[r].pc = "items"
  /\ \/ /\ dbLineItems' = dbLineItems \o LineItemRows(cc[r].invoice, cc[r].invoiceId)
        /\ cc' = [cc EXCEPT ![r] = [cc[r] EXCEPT !.pc = "update", !.item = 1]]
     \/ /\ cc' = [cc EXCEPT ![r] = NoRun]
        /\ UNCHANGED dbLineItems
  /\ UNCHANGED <<dbInvoices, dbProducts, dbPriceHistory, dbPriceAlerts, im, dtVars, dr,
                 anVars, pkVars, csvVars, mwVars, dsVars, fnVars>>

\* lines 215-266 and 272-318
ConcurrentUpdateProduct(r) ==
  /\ cc[r].pc = "update"
  /\ LET run == cc[r]
         item == run.invoice.lineItems[run.item]
         earlier == EarlierPrices(item.productNumber, run.restaurantId,
                                  run.invoice.documentDate)
     IN  /\ dbProducts' = WithProduct(dbProducts, item.productNumber)
         /\ dbPriceHistory' =
              Append(dbPriceHistory,
                     PriceHistoryRow(item, run.invoice, run.invoiceId, run.restaurantId))
         /\ \E previous \in IF earlier = {} THEN {0} ELSE FirstNewest(earlier) :
              dbPriceAlerts' =
                AlertsAfterCheck(previous, item.productNumber, item.unitPrice,
                                 run.invoice.documentDate, run.restaurantId)
         /\ cc' = [cc EXCEPT ![r] =
                     IF run.item < Len(run.invoice.lineItems)
                     THEN [run EXCEPT !.item = @ + 1]
                     ELSE NoRun]
  /\ UNCHANGED <<dbInvoices, dbLineItems, im, dtVars, dr, anVars, pkVars, csvVars, mwVars, dsVars, fnVars>>

NextConcurrentImport ==
  \E r \in ImportRuns :
    \/ ConcurrentCheckExisting(r)
    \/ ConcurrentInsertInvoice(r)
    \/ ConcurrentInsertLineItems(r)
    \/ ConcurrentUpdateProduct(r)

SpecConcurrentImport == InitConcurrentImport /\ [][NextConcurrentImport]_vars

\* ---------------------------------------------------------------------------
\* importInvoicesFromDirectory (data-importer.ts lines 28-124).  The files of
\* the directory are numbered 1..totalFiles; what a file holds is chosen as
\* the loop reaches it.  A file's invoices carry at most one line item here,
\* and importInvoicesToDatabase deals with an invoice in one step.
\* ---------------------------------------------------------------------------
MaxFiles == 2

DirectoryDates == {1, 2}

DirectoryLineItemLists == {<<>>, <<LineItem("P1", 10)>>, <<LineItem("P1", 12)>>}

\* what the loop body finds in a file: statSync, readFileSync or the parser
\* throws; size 0; one line at most; rows but no invoice; invoices
FileKinds == {"unreadable", "empty", "header only", "no invoices", "invoices"}

\* lines 58 and 115-116: on to the next file; after the last one success is set
AfterFile(run) ==
  IF run.file < run.result.totalFiles
  THEN [run EXCEPT !.pc = "file", !.file = @ + 1, !.size = 0, !.left = 0,
                   !.fileDocs = {}, !.fileLineItems = 0]
  ELSE [run EXCEPT !.pc = "done", !.size = 0, !.left = 0,
                   !.fileDocs = {}, !.fileLineItems = 0,
                   !.result.success = run.result.processedFiles > 0]

\* continue, without the push
Continued(run) == AfterFile(run)

\* lines 76-77, 87-88, 95-96: result.skippedFiles.push(fileName); continue
Skipped(run) == AfterFile([run EXCEPT !.result.skippedFiles = Append(@, run.file)])

\* the catch of lines 108-112 passing the error on to the catch of lines 118-123
Rethrown(run) ==
  [run EXCEPT !.pc = "done", !.size = 0, !.left = 0, !.fileDocs = {},
              !.fileLineItems = 0, !.result.errors = Append(@, 0)]

\* lines 108-112: result.errors.push(errorMsg), and the loop goes on
Caught(run) == AfterFile([run EXCEPT !.result.errors = Append(@, run.file)])

\* lines 102-104
Processed(run) ==
  AfterFile([run EXCEPT !.result.processedFiles = @ + 1,
                        !.result.totalInvoices = @ + run.size,
                        !.result.totalLineItems = @ + run.fileLineItems])

\* lines 130, 204: the next invoice of the file, or the end of the call
AfterFileInvoice(run) ==
  IF run.left > 1 THEN [run EXCEPT !.left = @ - 1] ELSE Processed(run)

InitDirectory ==
  /\ dr = NoDirectoryRun
  /\ DetectorsIdle
  /\ ConcurrentIdle
  /\ FunctionsIdle
  /\ ImportIdle
  /\ DashboardIdle
  /\ AnalyzerIdle
  /\ PackSizeIdle
  /\ CsvIdle
  /\ MiddlewareIdle

\* lines 28-56 and 118-123: readdirSync throws or finds no CSV file (either
\* way one message about the directory and no file counted), or finds some
ImportInvoicesFromDirectory ==
  /\ dr.pc = "idle"
  /\ \E restaurantId \in Restaurants :
       \/ dr' = [NoDirectoryRun EXCEPT !.pc = "done", !.restaurantId = restaurantId,
                                       !.result.errors = <<0>>]
       \/ \E totalFiles \in 1..MaxFiles :
            dr' = [NoDirectoryRun EXCEPT !.pc = "file", !.restaurantId = restaurantId,
                                         !.file = 1, !.result.totalFiles = totalFiles]
  /\ UNCHANGED <<dbVars, im, dtVars, cc, anVars, pkVars, csvVars, mwVars, dsVars, fnVars>>

\* lines 58-97 and 108-112: the file is looked at and parsed
ReadFile ==
  /\ dr.pc = "file"
  /\ \E kind \in FileKinds :
       \/ kind = "unreadable" /\ dr' = Caught(dr)
       \/ kind \in {"empty", "header only", "no invoices"} /\ dr' = Skipped(dr)
       \/ /\ kind = "invoices"
          /\ \E size \in FileSizes :
               dr' = [dr EXCEPT !.pc = "invoice", !.size = size, !.left = size]
  /\ UNCHANGED <<dbVars, im, dtVars, cc, anVars, pkVars, csvVars, mwVars, dsVars, fnVars>>

\* lines 100 and 129-205: importInvoicesToDatabase on the next invoice of the
\* file.  The invoice is stored already and passed over; or the insertion of
\* the invoice fails; or that of its line items fails; or all is stored, with
\* the product, the price and the alert of its line item.  A failure is
\* thrown to the catch of lines 108-112.
ImportFileInvoice ==
  /\ dr.pc = "invoice"
  /\ \E documentNumber \in NextDocuments(dr.fileDocs), documentDate \in DirectoryDates,
        lineItems \in DirectoryLineItemLists :
       LET invoice == [documentNumber |-> documentNumber,
                       documentDate   |-> documentDate,
                       lineItems      |-> lineItems]
           invoiceId == Len(dbInvoices) + 1
           run == [dr EXCEPT !.fileDocs = @ \cup {documentNumber},
                             !.fileLineItems = @ + Len(lineItems)]
       IN  IF ExistingInvoice(documentNumber, dr.restaurantId)
           THEN /\ dr' = AfterFileInvoice(run)
                /\ UNCHANGED dbVars
           ELSE \/ /\ dr' = Caught(run)
                   /\ UNCHANGED dbVars
                \/ /\ dbInvoices' = Append(dbInvoices, InvoiceRow(invoice, dr.restaurantId))
                   /\ IF lineItems = <<>>
                      THEN /\ dr' = AfterFileInvoice(run)
                           /\ UNCHANGED <<dbLineItems, dbProducts, dbPriceHistory,
                                          dbPriceAlerts>>
                      ELSE \/ /\ dr' = Caught(run)
                              /\ UNCHANGED <<dbLineItems, dbProducts, dbPriceHistory,
                                             dbPriceAlerts>>
                           \/ LET item == lineItems[1]
                                  earlier == EarlierPrices(item.productNumber,
                                                           dr.restaurantId, documentDate)
                              IN  /\ dr' = AfterFileInvoice(run)
                                  /\ dbLineItems' =
                                       dbLineItems \o LineItemRows(invoice, invoiceId)
                                  /\ dbProducts' = WithProduct(dbProducts, item.productNumber)
                                  /\ dbPriceHistory' =
                                       Append(dbPriceHistory,
                                              PriceHistoryRow(item, invoice, invoiceId,
                                                              dr.restaurantId))
                                  /\ \E previous \in IF earlier = {} THEN {0}
                                                    ELSE FirstNewest(earlier) :
                                       dbPriceAlerts' =
                                         AlertsAfterCheck(previous, item.productNumber,
                                                          item.unitPrice, documentDate,
                                                          dr.restaurantId)
  /\ UNCHANGED <<im, dtVars, cc, anVars, pkVars, csvVars, mwVars, dsVars, fnVars>>

NextDirectory ==
  \/ ImportInvoicesFromDirectory
  \/ ReadFile
  \/ ImportFileInvoice

SpecDirectory == InitDirectory /\ [][NextDirectory]_vars

\* ---------------------------------------------------------------------------
\* calculateMonthlySpending (price-analyzer.ts lines 255-313).  An invoice's
\* documentDate is given by the year and the month that getFullYear() and
\* getMonth() + 1 read from it.  topCategories and averageInvoiceAmount are
\* not part of the entries modelled.
\* ---------------------------------------------------------------------------
SpendingMonths == {<<2024, 12>>, <<2025, 1>>, <<2025, 4>>}

SpendingAmounts == {10, 25}

\* toLocaleDateString('en-US', { month: 'long' }), as strings of characters
MonthNames ==
  <<<<"J", "a", "n", "u", "a", "r", "y">>,
    <<"F", "e", "b", "r", "u", "a", "r", "y">>,
    <<"M", "a", "r", "c", "h">>,
    <<"A", "p", "r", "i", "l">>,
    <<"M", "a", "y">>,
    <<"J", "u", "n", "e">>,
    <<"J", "u", "l", "y">>,
    <<"A", "u", "g", "u", "s", "t">>,
    <<"S", "e", "p", "t", "e", "m", "b", "e", "r">>,
    <<"O", "c", "t", "o", "b", "e", "r">>,
    <<"N", "o", "v", "e", "m", "b", "e", "r">>,
    <<"D", "e", "c", "e", "m", "b", "e", "r">>>>

RECURSIVE LexicographicallyBefore(_, _)
\* a.localeCompare(b) < 0 for strings of letters
LexicographicallyBefore(a, b) ==
  IF b = <<>> THEN FALSE
  ELSE IF a = <<>> THEN TRUE
  ELSE LET x == IndexIn(LowerChar(Head(a)), LowerLetters)
           y == IndexIn(LowerChar(Head(b)), LowerLetters)
       IN  IF x # y THEN x < y ELSE LexicographicallyBefore(Tail(a), Tail(b))

\* line 290: the month, as its name
MonthName(monthKey) == MonthNames[monthKey[2]]

\* lines 263-264: `${getFullYear()}-${String(getMonth() + 1).padStart(2, '0')}`,
\* taken apart again by split('-') and parseInt at lines 289-290
MonthKey(invoice) == <<invoice.documentDate[1], invoice.documentDate[2]>>

\* lines 274-276 and 302-309
MonthlySpendingEntry(monthKey, invoices) ==
  LET ofMonth == Filter(invoices, LAMBDA invoice : MonthKey(invoice) = monthKey)
  IN  [month        |-> MonthName(monthKey),
       year         |-> monthKey[1],
       totalSpent   |-> SumSeq([i \in 1..Len(ofMonth) |->
                                  ofMonth[i].netAmountAfterAdjustment]),
       invoiceCount |-> Len(ofMonth)]

\* line 312: a.year - b.year || a.month.localeCompare(b.month)
ByYearThenMonthName(a, b) ==
  IF a.year # b.year THEN a.year < b.year
  ELSE LexicographicallyBefore(a.month, b.month)

calculateMonthlySpending(invoices) ==
  LET keys    == Distinct([i \in 1..Len(invoices) |-> MonthKey(invoices[i])])
      results == [k \in 1..Len(keys) |-> MonthlySpendingEntry(keys[k], invoices)]
  IN  StableSort(results, ByYearThenMonthName)

InitMonthlySpending ==
  /\ \E n \in 0..MaxStoredInvoices :
       \E month \in [1..n -> SpendingMonths], amount \in [1..n -> SpendingAmounts] :
         msInvoices = [i \in 1..n |-> [documentDate             |-> month[i],
                                       netAmountAfterAdjustment |-> amount[i]]]
  /\ msResult = <<>>
  /\ msCalled = FALSE
  /\ CategorizeIdle
  /\ DetectorsIdle
  /\ ConcurrentIdle
  /\ DirectoryIdle
  /\ ImportIdle
  /\ DashboardIdle
  /\ AnalyzerIdle
  /\ PackSizeIdle
  /\ CsvIdle
  /\ MiddlewareIdle

CalculateMonthlySpending ==
  /\ ~msCalled
  /\ msResult' = calculateMonthlySpending(msInvoices)
  /\ msCalled' = TRUE
  /\ UNCHANGED <<msInvoices, cpVars, dtVars, cc, dr, anVars, pkVars, csvVars, mwVars, imVars, dsVars>>

NextMonthlySpending == CalculateMonthlySpending

SpecMonthlySpending == InitMonthlySpending /\ [][NextMonthlySpending]_vars

\* ---------------------------------------------------------------------------
\* categorizeProduct (csv-parser.ts lines 196-232) and the product_master
\* branch of updateProductMasterAndPriceHistory (data-importer.ts lines
\* 218-242) for one line item.
\* ---------------------------------------------------------------------------
MaxWords == 2

\* String.prototype.includes
Includes(s, t) == \E i \in 1..(Len(s) - Len(t) + 1) : SubSeq(s, i, i + Len(t) - 1) = t

\* lines 200-228: the keyword tests in the order of the if statements
KeywordGroups ==
  <<[category |-> "Produce",
     keywords |-> {<<"t", "o", "m", "a", "t", "o">>,
                   <<"l", "e", "t", "t", "u", "c", "e">>, <<"o", "n", "i", "o", "n">>,
                   <<"p", "e", "p", "p", "e", "r">>, <<"o", "r", "a", "n", "g", "e">>,
                   <<"t", "o", "m", "a", "t", "i", "l", "l", "o">>,
                   <<"f", "r", "e", "s", "h">>, <<"p", "r", "o", "d", "u", "c", "e">>}],
    [category |-> "Protein",
     keywords |-> {<<"b", "e", "e", "f">>, <<"c", "h", "i", "c", "k", "e", "n">>,
                   <<"f", "i", "s", "h">>, <<"t", "i", "l", "a", "p", "i", "a">>,
                   <<"p", "r", "o", "t", "e", "i", "n">>, <<"m", "e", "a", "t">>}],
    [category |-> "Dairy",
     keywords |-> {<<"c", "h", "e", "e", "s", "e">>,
                   <<"s", "o", "u", "r", " ", "c", "r", "e", "a", "m">>,
                   <<"m", "i", "l", "k">>, <<"d", "a", "i", "r", "y">>,
                   <<"c", "r", "e", "a", "m">>}],
    [category |-> "Supplies",
     keywords |-> {<<"b", "a", "g">>, <<"c", "o", "n", "t", "a", "i", "n", "e", "r">>,
                   <<"w", "r", "a", "p">>, <<"c", "u", "p">>,
                   <<"s", "u", "p", "p", "l", "i", "e", "s">>}],
    [category |-> "Beverages",
     keywords |-> {<<"j", "u", "i", "c", "e">>, <<"s", "o", "d", "a">>,
                   <<"w", "a", "t", "e", "r">>,
                   <<"b", "e", "v", "e", "r", "a", "g", "e">>,
                   <<"d", "r", "i", "n", "k">>}]>>

\* supabase.ts lines 46 and 57, and the CHECK of the table (part_004 line 24)
ProductCategories == {"Produce", "Protein", "Dairy", "Dry Goods", "Supplies", "Beverages"}

\* picks the last group with a keyword in the description
categorizeProductLastMatch(description) ==
  LET desc     == ToLowerCase(description)
      matching == {g \in DOMAIN KeywordGroups :
                     \E keyword \in KeywordGroups[g].keywords : Includes(desc, keyword)}
  IN  IF matching = {} THEN "Dry Goods"
      ELSE KeywordGroups[CHOOSE g \in matching : \A h \in matching : h <= g].category

\* lines 196-232: the first if statement with a keyword in the description
\* returns; "Dry Goods" when none has
categorizeProduct(description) ==
  LET desc     == ToLowerCase(description)
      matching == {g \in DOMAIN KeywordGroups :
                     \E keyword \in KeywordGroups[g].keywords : Includes(desc, keyword)}
  IN  IF matching = {} THEN "Dry Goods"
      ELSE KeywordGroups[CHOOSE g \in matching : \A h \in matching : g <= h].category

\* data-importer.ts lines 230-237
ProductRow(item, category) ==
  [product_number |-> item.productNumber,
   description    |-> item.productDescription,
   category       |-> category]

\* lines 218-224: existingProduct
ExistingProduct(products, item) ==
  \E row \in products : row.product_number = item.productNumber

\* lines 228-241: the insert, refused by the CHECK of product_master.category
InsertProductRow(products, row) ==
  IF row.category \in ProductCategories THEN products \cup {row} ELSE products

DescriptionWords ==
  {<<"S", "A", "L", "T">>, <<"B", "A", "G">>,
   <<"T", "O", "M", "A", "T", "O">>, <<"B", "E", "E", "F">>,
   <<"F", "r", "e", "s", "h">>, <<"C", "h", "e", "e", "s", "e">>,
   <<"S", "o", "u", "r", " ", "C", "r", "e", "a", "m">>,
   <<"C", "U", "P">>, <<"W", "a", "t", "e", "r">>,
   <<"P", "e", "p", "p", "e", "r", "o", "n", "i">>}

RECURSIVE JoinWords(_)
\* a description of words separated by a blank
JoinWords(words) ==
  IF words = <<>> THEN <<>>
  ELSE IF Len(words) = 1 THEN words[1]
  ELSE words[1] \o <<" ">> \o JoinWords(Tail(words))

\* part_004 lines 144-146: a row of the sample data
SampleProducts ==
  {[product_number |-> 1, description |-> <<"O", "I", "L">>, category |-> "Dry Goods"]}

InitCategorize ==
  /\ \E n \in 0..MaxWords :
       \E words \in [1..n -> DescriptionWords], productNumber \in {1, 2} :
         cpItem = [productNumber |-> productNumber, productDescription |-> JoinWords(words)]
  /\ cpProducts \in {{}, SampleProducts}
  /\ cpCategory = ""
  /\ cpPc = "check"
  /\ MonthlySpendingIdle
  /\ DetectorsIdle
  /\ ConcurrentIdle
  /\ DirectoryIdle
  /\ ImportIdle
  /\ DashboardIdle
  /\ AnalyzerIdle
  /\ PackSizeIdle
  /\ CsvIdle
  /\ MiddlewareIdle

\* lines 218-224 with an existing product: nothing is inserted
KeepExistingProduct ==
  /\ cpPc = "check"
  /\ ExistingProduct(cpProducts, cpItem)
  /\ cpPc' = "done"
  /\ UNCHANGED <<cpItem, cpCategory, cpProducts, msVars, dtVars, cc, dr, anVars, pkVars,
                 csvVars, mwVars, imVars, dsVars>>

\* line 226
CategorizeProduct ==
  /\ cpPc = "check"
  /\ ~ExistingProduct(cpProducts, cpItem)
  /\ cpCategory' = categorizeProduct(cpItem.productDescription)
  /\ cpPc' = "insert"
  /\ UNCHANGED <<cpItem, cpProducts, msVars, dtVars, cc, dr, anVars, pkVars, csvVars,
                 mwVars, imVars, dsVars>>

\* lines 228-241
InsertProduct ==
  /\ cpPc = "insert"
  /\ cpProducts' = InsertProductRow(cpProducts, ProductRow(cpItem, cpCategory))
  /\ cpPc' = "done"
  /\ UNCHANGED <<cpItem, cpCategory, msVars, dtVars, cc, dr, anVars, pkVars, csvVars,
                 mwVars, imVars, dsVars>>

NextCategorize == KeepExistingProduct \/ CategorizeProduct \/ InsertProduct

SpecCategorize == InitCategorize /\ [][NextCategorize]_vars

(***************************************************************************)
(* Properties of the price analyzer.  They are stated over the input       *)
(* itself: an observation is a pair <<invoice index, line index>> of       *)
(* anInvoices, and "earlier" is the date order, equal dates in input order. *)
(***************************************************************************)
ObsIds ==
  {a \in (1..Len(anInvoices)) \X (1..MaxItems) : a[2] <= Len(anInvoices[a[1]].lineItems)}

ObsProduct(a) == anInvoices[a[1]].lineItems[a[2]].productNumber
ObsPrice(a) == anInvoices[a[1]].lineItems[a[2]].unitPrice
ObsDate(a) == anInvoices[a[1]].documentDate
ProductObs(p) == {a \in ObsIds : ObsProduct(a) = p}

InputBefore(a, b) == a[1] < b[1] \/ (a[1] = b[1] /\ a[2] < b[2])
Earlier(a, b) == ObsDate(a) < ObsDate(b) \/ (ObsDate(a) = ObsDate(b) /\ InputBefore(a, b))

DateAdjacent(a, b) ==
  /\ ObsProduct(a) = ObsProduct(b)
  /\ Earlier(a, b)
  /\ ~\E c \in ProductObs(ObsProduct(a)) : Earlier(a, c) /\ Earlier(c, b)

\* |(current - previous) / previous * 100| >= t, for t >= 0
ChangeAtLeast(previous, current, t) ==
  IF previous = 0 THEN current # 0
  ELSE (current - previous) * (current - previous) * 10000 >= t * t * previous * previous

PairKey(a, b) == <<ObsProduct(a), ObsPrice(a), ObsPrice(b), ObsDate(a), ObsDate(b)>>
RecordKey(r) ==
  <<r.productNumber, r.previousPrice, r.newPrice, r.previousInvoiceDate, r.invoiceDate>>
Emitted(k) == Cardinality({i \in DOMAIN anChanges : RecordKey(anChanges[i]) = k})
ProductPairs == {ab \in ObsIds \X ObsIds : ObsProduct(ab[1]) = ObsProduct(ab[2])}
\* the number of change records with key k is the number of pairs of S with key k
RecordsAre(S) ==
  \A k \in {RecordKey(anChanges[i]) : i \in DOMAIN anChanges}
             \cup {PairKey(ab[1], ab[2]) : ab \in S} :
    Emitted(k) = Cardinality({ab \in S : PairKey(ab[1], ab[2]) = k})

AnalyzeCalled == "analyzePriceChanges" \in anCalled
AlertsCalled == "generatePriceAlerts" \in anCalled

\* C1 as stated: the change records are exactly the date-adjacent pairs of a
\* product whose percentage change is at least the threshold in absolute value
\* (each such pair once, and no record for any other pair).
C1_Original ==
  AnalyzeCalled =>
    LET expected == {ab \in ProductPairs :
                       /\ DateAdjacent(ab[1], ab[2])
                       /\ ChangeAtLeast(ObsPrice(ab[1]), ObsPrice(ab[2]), anThreshold)}
    IN  RecordsAre(expected)

\* C1 (amended): the change records of analyzePriceChanges are exactly the
\* date-adjacent pairs of a product whose two prices differ and whose percentage
\* change is at least the threshold in absolute value; a pair of equal prices
\* yields no record whatever the threshold, and no other pair yields one.
C1_AdjacentChanges ==
  AnalyzeCalled =>
    LET expected == {ab \in ProductPairs :
                       /\ DateAdjacent(ab[1], ab[2])
                       /\ ObsPrice(ab[1]) # ObsPrice(ab[2])
                       /\ ChangeAtLeast(ObsPrice(ab[1]), ObsPrice(ab[2]), anThreshold)}
    IN  RecordsAre(expected)

\* a run with threshold 0 over a product with three observations: an adjacent
\* pair of equal prices, an emitted record, and a non-adjacent pair whose change
\* is at least the threshold and has no record
C1_Witness ==
  /\ AnalyzeCalled
  /\ anThreshold = 0
  /\ Len(anChanges) >= 1
  /\ \E ab \in ProductPairs :
       /\ DateAdjacent(ab[1], ab[2])
       /\ ObsPrice(ab[1]) = ObsPrice(ab[2])
       /\ ObsPrice(ab[1]) # 0
  /\ \E ab \in ProductPairs :
       /\ Earlier(ab[1], ab[2])
       /\ ~DateAdjacent(ab[1], ab[2])
       /\ ObsPrice(ab[1]) # ObsPrice(ab[2])
       /\ Emitted(PairKey(ab[1], ab[2])) = 0

RECURSIVE SumPrices(_)
SumPrices(S) ==
  IF S = {} THEN 0 ELSE LET a == CHOOSE x \in S : TRUE IN ObsPrice(a) + SumPrices(S \ {a})

RECURSIVE SumSquaredPrices(_)
SumSquaredPrices(S) ==
  IF S = {} THEN 0
  ELSE LET a == CHOOSE x \in S : TRUE
       IN  ObsPrice(a) * ObsPrice(a) + SumSquaredPrices(S \ {a})

LatestObs(p) == CHOOSE a \in ProductObs(p) : \A b \in ProductObs(p) \ {a} : Earlier(b, a)

AlertsOf(p, types) ==
  {i \in DOMAIN anAlerts : anAlerts[i].productNumber = p /\ anAlerts[i].alertType \in types}

Significant == {"significant_increase", "significant_decrease"}

\* C5: generatePriceAlerts emits a significant_increase / significant_decrease
\* alert for a product exactly when its latest price (latest by invoice date)
\* differs from the mean of its prices by more than 30% of the mean, of type
\* significant_increase when the latest price is above the mean and
\* significant_decrease when it is below.
C5_SignificantDeviation ==
  AlertsCalled =>
    \A p \in Products :
      IF ProductObs(p) = {} THEN AlertsOf(p, Significant) = {}
      ELSE LET n == Cardinality(ProductObs(p))
               total == SumPrices(ProductObs(p))
               latest == ObsPrice(LatestObs(p))
           IN  /\ Cardinality(AlertsOf(p, Significant)) <= 1
               /\ AlertsOf(p, Significant) # {} <=> 10 * Abs(n * latest - total) > 3 * total
               /\ \A i \in AlertsOf(p, Significant) :
                    /\ anAlerts[i].currentPrice = latest
                    /\ anAlerts[i].alertType =
                         IF n * latest > total THEN "significant_increase"
                         ELSE "significant_decrease"

\* a significant_decrease alert for a product whose latest observation is not
\* the last one of the input
C5_Witness ==
  /\ AlertsCalled
  /\ \E p \in Products :
       /\ AlertsOf(p, {"significant_decrease"}) # {}
       /\ \E b \in ProductObs(p) : InputBefore(LatestObs(p), b)

\* C6: generatePriceAlerts emits an unusual_pricing alert for a product exactly
\* when (population standard deviation / mean) * 100 of its prices is greater
\* than 25, whether or not it emits a significant_* alert for the product.
\* With n prices of sum S and sum of squares Q the population variance is
\* (n * Q - S^2) / n^2, so the condition is 16 * (n * Q - S^2) > S^2.
C6_UnusualPricing ==
  AlertsCalled =>
    \A p \in Products :
      LET n == Cardinality(ProductObs(p))
          total == SumPrices(ProductObs(p))
          squares == SumSquaredPrices(ProductObs(p))
      IN  /\ Cardinality(AlertsOf(p, {"unusual_pricing"})) <= 1
          /\ AlertsOf(p, {"unusual_pricing"}) # {}
               <=> (ProductObs(p) # {} /\ 16 * (n * squares - total * total) > total * total)

\* an unusual_pricing alert for a product without a significant_* alert, and a
\* significant_* alert for a product with an unusual_pricing alert
C6_Witness ==
  /\ AlertsCalled
  /\ \E p \in Products :
       AlertsOf(p, {"unusual_pricing"}) # {} /\ AlertsOf(p, Significant) = {}

StatsOf(p) == {k \in DOMAIN anStats : anStats[k].productNumber = p}

ValueOf(text) ==
  CASE text = <<"6">> -> Number(6, 1)
    [] text = <<"2", "5">> -> Number(25, 1)
    [] text = <<"2", "0", "0", "0">> -> Number(2000, 1)
    [] text = <<"1", "6", ".", "5">> -> Number(33, 2)
    [] text = <<"1", ".", "1">> -> Number(11, 10)

UpperOf(unit) ==
  CASE unit \in {<<"O", "Z">>, <<"o", "z">>} -> <<"O", "Z">>
    [] unit = <<"L", "b">> -> <<"L", "B">>
    [] unit = <<"E", "A">> -> <<"E", "A">>
    [] unit = <<"e", "a", "c", "h">> -> <<"E", "A", "C", "H">>
    [] unit = <<"L", "B", "A">> -> <<"L", "B", "A">>

\* C8: for 'N/M UNIT' parsePackSize returns units = N, size = M, unitType = UNIT
\* in upper case and totalUnits = N * M; for 'N UNIT' it returns units = 1,
\* size = N, unitType = UNIT in upper case and totalUnits = N; in any letter
\* case and with any white space around the string.
C8_PackSize ==
  pkCalled =>
    /\ pkCase.form = "slash" =>
         /\ SameNumber(pkResult.units, ValueOf(pkCase.n))
         /\ pkResult.size = pkCase.m
         /\ pkResult.unitType = UpperOf(pkCase.unit)
         /\ SameNumber(pkResult.totalUnits,
                       Number(ValueOf(pkCase.n).num * ValueOf(pkCase.m).num,
                              ValueOf(pkCase.n).den * ValueOf(pkCase.m).den))
    /\ pkCase.form = "simple" =>
         /\ SameNumber(pkResult.units, Number(1, 1))
         /\ pkResult.size = pkCase.n
         /\ pkResult.unitType = UpperOf(pkCase.unit)
         /\ SameNumber(pkResult.totalUnits, ValueOf(pkCase.n))

\* '6/16.5 OZ' written in lower case between white space gives 6, 16.5, OZ, 99
C8_Witness ==
  /\ pkCalled
  /\ pkInput = <<"\t", " ", "6", "/", "1", "6", ".", "5", " ", "o", "z", " ">>
  /\ pkResult.units = Number(6, 1)
  /\ pkResult.size = <<"1", "6", ".", "5">>
  /\ pkResult.unitType = <<"O", "Z">>
  /\ SameNumber(pkResult.totalUnits, Number(99, 1))

(***************************************************************************)
(* Properties of processInvoiceData.  What a DocumentNumber field trims to  *)
(* is taken from this table, not from the parser.                           *)
(***************************************************************************)
TrimmedText(text) ==
  CASE text \in {<<>>, <<" ">>} -> <<>>
    [] text \in {<<"A">>, <<"A", " ">>} -> <<"A">>
    [] text = <<"B">> -> <<"B">>

\* the rows of a document number: those with a DocumentNumber that trims to it
RowsOf(documentNumber) ==
  {r \in DOMAIN csvRows : /\ csvRows[r].DocumentNumber # <<>>
                          /\ TrimmedText(csvRows[r].DocumentNumber) = documentNumber}
FirstRow(documentNumber) ==
  CHOOSE r \in RowsOf(documentNumber) : \A q \in RowsOf(documentNumber) : r <= q
ProductRows(S) == {r \in S : csvRows[r].ProductNumber # ""}

\* C9: processInvoiceData returns one ParsedInvoice per distinct trimmed
\* DocumentNumber, in order of first appearance, its header taken from the
\* first row of the document; rows without DocumentNumber are ignored; every
\* row with a ProductNumber gives one line item of its document's invoice, in
\* row order, so the line items number the rows with both fields.
C9_InvoicesPerDocument ==
  csvCalled =>
    /\ \A r \in DOMAIN csvRows :
         csvRows[r].DocumentNumber # <<>> =>
           \E i \in DOMAIN csvInvoices :
             csvInvoices[i].documentNumber = TrimmedText(csvRows[r].DocumentNumber)
    /\ \A i \in DOMAIN csvInvoices :
         LET inv == csvInvoices[i]
             mine == ProductRows(RowsOf(inv.documentNumber))
         IN  /\ RowsOf(inv.documentNumber) # {}
             /\ \A j \in DOMAIN csvInvoices :
                  /\ j # i => csvInvoices[j].documentNumber # inv.documentNumber
                  /\ i < j => RowsOf(csvInvoices[j].documentNumber) # {}
                              /\ FirstRow(inv.documentNumber)
                                   < FirstRow(csvInvoices[j].documentNumber)
             /\ inv.documentDate = csvRows[FirstRow(inv.documentNumber)].DocumentDate
             /\ Len(inv.lineItems) = Cardinality(mine)
             /\ \A r \in mine :
                  LET item == inv.lineItems[Cardinality({q \in mine : q <= r})]
                  IN  /\ item.productNumber = csvRows[r].ProductNumber
                      /\ item.productDescription = csvRows[r].ProductDescription
    /\ SumSeq([i \in DOMAIN csvInvoices |-> Len(csvInvoices[i].lineItems)])
         = Cardinality({r \in DOMAIN csvRows : /\ csvRows[r].DocumentNumber # <<>>
                                                /\ csvRows[r].ProductNumber # ""})

\* rows of document A, of document B and of document "A " again, each with a
\* product: two invoices, the first one with the line items of rows 1 and 3
C9_Witness ==
  /\ csvCalled
  /\ Len(csvRows) = 3
  /\ csvRows[1].DocumentNumber = <<"A">>
  /\ csvRows[3].DocumentNumber = <<"A", " ">>
  /\ Len(csvInvoices) = 2
  /\ Len(csvInvoices[1].lineItems) = 2
  /\ Len(csvInvoices[2].lineItems) = 1

(***************************************************************************)
(* Properties of the middleware.                                            *)
(***************************************************************************)
Answered == mwResponse.kind \in {"next", "redirect"}

\* C10: the middleware answers every request whose path starts with /dashboard
\* and for which no user is resolved with a redirect to /auth/signin, never
\* with the pass-through response.
C10_DashboardProtected ==
  (/\ Answered
   /\ ~mwUser
   /\ Len(mwPath) >= 10
   /\ SubSeq(mwPath, 1, 10) = <<"/", "d", "a", "s", "h", "b", "o", "a", "r", "d">>)
    => mwResponse = Response("redirect", <<"/", "a", "u", "t", "h", "/", "s", "i", "g", "n", "i", "n">>)

\* an unauthenticated request for /dashboard/products, redirected to sign-in
C10_Witness ==
  /\ ~mwUser
  /\ mwPath = <<"/", "d", "a", "s", "h", "b", "o", "a", "r", "d", "/", "p", "r", "o", "d", "u", "c", "t", "s">>
  /\ mwResponse = Response("redirect", <<"/", "a", "u", "t", "h", "/", "s", "i", "g", "n", "i", "n">>)

(***************************************************************************)
(* Properties of the importer, stated over the tables.                      *)
(***************************************************************************)
HistoryOf(productNumber, restaurantId) ==
  {i \in DOMAIN dbPriceHistory :
     /\ dbPriceHistory[i].product_number = productNumber
     /\ dbPriceHistory[i].restaurant_id = restaurantId}
AlertType(previous, current) == IF current > previous THEN "increase" ELSE "decrease"
AlertKey(a) ==
  <<a.restaurant_id, a.product_number, a.previous_price, a.new_price, a.invoice_date,
    a.alert_type>>

\* C2: when a line item with unit price p is imported for product X, restaurant
\* R and invoice date d, a price_alerts row is created if and only if a
\* price_history row of (X, R) dated strictly before d exists and p differs
\* from the most recent such earlier price by at least 20% in absolute value;
\* alert_type is "increase" for a positive and "decrease" for a negative
\* change.  (Where several earlier rows share the most recent date, the change
\* relative to any of them may decide.)
C2_Original ==
  [][im.pc = "update" =>
       LET item == im.invoice.lineItems[im.item]
           d == im.invoice.documentDate
           earlier == {i \in HistoryOf(item.productNumber, im.restaurantId) :
                         dbPriceHistory[i].invoice_date < d}
           latest == {i \in earlier : \A j \in earlier :
                        dbPriceHistory[j].invoice_date <= dbPriceHistory[i].invoice_date}
           created == Len(dbPriceAlerts') = Len(dbPriceAlerts) + 1
           alert == dbPriceAlerts'[Len(dbPriceAlerts')]
       IN  /\ created \/ dbPriceAlerts' = dbPriceAlerts
           /\ created =>
                /\ SubSeq(dbPriceAlerts', 1, Len(dbPriceAlerts)) = dbPriceAlerts
                /\ \E i \in latest :
                     /\ ChangeAtLeast(dbPriceHistory[i].price, item.unitPrice, 20)
                     /\ AlertKey(alert) =
                          <<im.restaurantId, item.productNumber, dbPriceHistory[i].price,
                            item.unitPrice, d,
                            AlertType(dbPriceHistory[i].price, item.unitPrice)>>
           /\ (/\ earlier # {}
               /\ \A i \in latest :
                    ChangeAtLeast(dbPriceHistory[i].price, item.unitPrice, 20))
                => created]_vars

\* the changes of at least 20% between date-consecutive stored observations of
\* one product and restaurant
ConsecutiveChanges ==
  {<<dbPriceHistory[a].restaurant_id, dbPriceHistory[a].product_number,
     dbPriceHistory[a].price, dbPriceHistory[b].price, dbPriceHistory[b].invoice_date,
     AlertType(dbPriceHistory[a].price, dbPriceHistory[b].price)>> :
     <<a, b>> \in
       {ab \in (DOMAIN dbPriceHistory) \X (DOMAIN dbPriceHistory) :
          LET h == HistoryOf(dbPriceHistory[ab[1]].product_number,
                             dbPriceHistory[ab[1]].restaurant_id)
          IN  /\ ab[2] \in h
              /\ dbPriceHistory[ab[1]].invoice_date < dbPriceHistory[ab[2]].invoice_date
              /\ ~\E c \in h :
                    /\ dbPriceHistory[ab[1]].invoice_date < dbPriceHistory[c].invoice_date
                    /\ dbPriceHistory[c].invoice_date < dbPriceHistory[ab[2]].invoice_date
              /\ ChangeAtLeast(dbPriceHistory[ab[1]].price, dbPriceHistory[ab[2]].price, 20)}}

\* C3: after importing any invoices in any order the stored price alerts are
\* exactly the changes of at least 20% between date-consecutive observations
\* of the same product and restaurant (hence the same for every import order).
C3_Original ==
  im.pc = "idle" =>
    {AlertKey(dbPriceAlerts[i]) : i \in DOMAIN dbPriceAlerts} = ConsecutiveChanges

PriceIncreasesCalled == dsCalled = "ok" /\ dsItems # <<>>
PackOf(i) == <<dsItems[i].product_number, dsItems[i].pack_size>>
PacksBought == {PackOf(i) : i \in DOMAIN dsItems}
PurchasesOf(g) == {i \in DOMAIN dsItems : PackOf(i) = g}
\* the earliest purchase of a group (of several on the earliest date, the one
\* the query returned first) and its latest (of several, the one returned last)
EarliestOf(g) ==
  CHOOSE i \in PurchasesOf(g) : \A j \in PurchasesOf(g) :
    \/ dsItems[i].invoice_date < dsItems[j].invoice_date
    \/ (dsItems[i].invoice_date = dsItems[j].invoice_date /\ i <= j)
LatestOf(g) ==
  CHOOSE i \in PurchasesOf(g) : \A j \in PurchasesOf(g) :
    \/ dsItems[i].invoice_date > dsItems[j].invoice_date
    \/ (dsItems[i].invoice_date = dsItems[j].invoice_date /\ i >= j)
\* at least 2 purchases, earliest price > 0, latest more than 5% above it
Increased(g) ==
  /\ Cardinality(PurchasesOf(g)) >= 2
  /\ dsItems[EarliestOf(g)].unit_price > 0
  /\ 100 * (dsItems[LatestOf(g)].unit_price - dsItems[EarliestOf(g)].unit_price)
       > 5 * dsItems[EarliestOf(g)].unit_price
ReportedPacks == {<<dsResult[k].product_number, dsResult[k].pack_size>> : k \in DOMAIN dsResult}
\* group g rose by at least as many percent as group h
RoseAtLeast(g, h) ==
  (dsItems[LatestOf(g)].unit_price - dsItems[EarliestOf(g)].unit_price)
      * dsItems[EarliestOf(h)].unit_price
    >= (dsItems[LatestOf(h)].unit_price - dsItems[EarliestOf(h)].unit_price)
         * dsItems[EarliestOf(g)].unit_price

MonthlyTrendsCalled == dsCalled = "ok" /\ dsArg \in MonthCounts /\ dsItems = <<>>

CalendarMonth(i) == <<dsInvoices[i].invoice_date[1], dsInvoices[i].invoice_date[2]>>

InvoicesDatedIn(yearMonth) == {i \in DOMAIN dsInvoices : CalendarMonth(i) = yearMonth}

RECURSIVE NetAmountOver(_)
NetAmountOver(ids) ==
  IF ids = {} THEN 0
  ELSE LET i == CHOOSE i \in ids : TRUE
       IN  dsInvoices[i].net_amount + NetAmountOver(ids \ {i})

MonthsWithInvoices == {CalendarMonth(i) : i \in DOMAIN dsInvoices}

MonthBefore(m1, m2) == m1[1] < m2[1] \/ (m1[1] = m2[1] /\ m1[2] < m2[2])

\* the last dsArg months that have invoices
LastMonthsWithInvoices ==
  {m \in MonthsWithInvoices :
     Cardinality({later \in MonthsWithInvoices : MonthBefore(m, later)}) < dsArg}

\* C12: every month getMonthlySpendTrends returns carries the sum of net_amount
\* and the number of the stored invoices dated in that calendar month, and the
\* months returned are the last `months` months that have invoices, oldest
\* first.
C12_Original ==
  MonthlyTrendsCalled =>
    /\ \A k \in DOMAIN dsResult :
         /\ dsResult[k].total_spend =
              NetAmountOver(InvoicesDatedIn(<<dsResult[k].year, dsResult[k].month>>))
         /\ dsResult[k].invoice_count =
              Cardinality(InvoicesDatedIn(<<dsResult[k].year, dsResult[k].month>>))
    /\ {<<dsResult[k].year, dsResult[k].month>> : k \in DOMAIN dsResult}
         = LastMonthsWithInvoices
    /\ Len(dsResult) = Cardinality(LastMonthsWithInvoices)

\* C12 where the runtime's time zone is not west of UTC: the statement of
\* C12_Original holds there.
C12_EastOfGreenwich ==
  (MonthlyTrendsCalled /\ dsTimeZone # "America/Chicago") => C12_Original

\* ---------------------------------------------------------------------------
\* Properties of getLocationComparison
\* ---------------------------------------------------------------------------
LocationComparisonCalled == dsCalled = "ok" /\ dsArg = 0 /\ dsItems = <<>>

\* the name an invoice is counted under: its location's, or 'Unknown'
CountedUnder(i) ==
  IF dsInvoices[i].location \in LocationNames THEN dsInvoices[i].location ELSE "Unknown"

InvoicesOfLocation(name) == {i \in DOMAIN dsInvoices : CountedUnder(i) = name}

\* C13: for every location name, invoices without a location counted under
\* 'Unknown', getLocationComparison reports the sum of net_amount and the
\* number of the stored invoices of that location, so the totals over the
\* reported locations are the totals over all stored invoices.
C13_Original ==
  LocationComparisonCalled =>
    /\ \A name \in LocationNames \cup {"Unknown"} :
         InvoicesOfLocation(name) # {} =>
           \E k \in DOMAIN dsResult :
             /\ dsResult[k].location_name = name
             /\ dsResult[k].total_spend = NetAmountOver(InvoicesOfLocation(name))
             /\ dsResult[k].total_invoices = Cardinality(InvoicesOfLocation(name))
    /\ SumSeq([k \in DOMAIN dsResult |-> dsResult[k].total_spend])
         = NetAmountOver(DOMAIN dsInvoices)
    /\ SumSeq([k \in DOMAIN dsResult |-> dsResult[k].total_invoices])
         = Len(dsInvoices)

\* C13 for the invoices that have a location: their locations are reported
\* with the exact sum and count.
C13_InvoicesWithLocation ==
  LocationComparisonCalled =>
    /\ \A name \in LocationNames :
         InvoicesOfLocation(name) # {} =>
           \E k \in DOMAIN dsResult :
             /\ dsResult[k].location_name = name
             /\ dsResult[k].total_spend = NetAmountOver(InvoicesOfLocation(name))
             /\ dsResult[k].total_invoices = Cardinality(InvoicesOfLocation(name))
    /\ \A k \in DOMAIN dsResult : dsResult[k].location_name \in LocationNames

\* ---------------------------------------------------------------------------
\* Properties of getProductPurchaseHistory and the modal's Change column
\* ---------------------------------------------------------------------------
PurchaseHistoryLoaded == dsCalled = "ok" /\ dsInvoices = <<>> /\ dsArg \in Products

\* the purchases of the product asked for, as positions of invoice_items
PurchasesOfProduct == {i \in DOMAIN dsItems : dsItems[i].product_number = dsArg}

ShownWith(invoice_date, unit_price) ==
  {k \in DOMAIN dsResult : /\ dsResult[k].invoice_date = invoice_date
                           /\ dsResult[k].unit_price = unit_price}

BoughtWith(invoice_date, unit_price) ==
  {i \in PurchasesOfProduct : /\ dsItems[i].invoice_date = invoice_date
                              /\ dsItems[i].unit_price = unit_price}

\* the change of price from one purchase to the next, as the modal shows it
ChangeBetween(previous, current) ==
  IF previous > 0 THEN [num |-> (current - previous) * 100, den |-> previous]
  ELSE IF current > 0 THEN "New"
  ELSE [num |-> 0, den |-> 1]

StoredItemsOf(lineItemTable, invoiceId) ==
  {i \in DOMAIN lineItemTable : lineItemTable[i].invoice_id = invoiceId}

\* C15: an invoice is never left stored without its line items: whenever
\* importInvoicesToDatabase is done with a stored invoice that was parsed with
\* line items, by going on to the next invoice or by ending the run, also
\* with an error, all of those line items are stored.
C15_Original ==
  [][(/\ im.pc \in {"items", "update"}
      /\ im'.pc \in {"check", "idle"})
       => Cardinality(StoredItemsOf(dbLineItems', im.invoiceId))
            = Len(im.invoice.lineItems)]_vars

\* ---------------------------------------------------------------------------
\* Properties of the price-change detectors
\* ---------------------------------------------------------------------------
Detected == dtFlags # NoFlags

ExactlyTwentyPercent ==
  dtPrevious > 0 /\ Abs(dtCurrent - dtPrevious) * 5 = dtPrevious

\* C16: the four detectors call the same pairs of prices significant, and
\* each of them calls a change of exactly 20% significant.
C16_Original ==
  Detected =>
    /\ \A d, e \in DOMAIN dtFlags : dtFlags[d] = dtFlags[e]
    /\ ExactlyTwentyPercent => \A d \in DOMAIN dtFlags : dtFlags[d]

\* the pairs on which all four agree: a previous price above 0 and a change
\* that is not exactly 20%
C16_AgreeOffThreshold ==
  (Detected /\ dtPrevious > 0 /\ ~ExactlyTwentyPercent) =>
    \A d, e \in DOMAIN dtFlags : dtFlags[d] = dtFlags[e]

\* ---------------------------------------------------------------------------
\* Properties of the price-change calculations: unit prices of 0
\* ---------------------------------------------------------------------------
\* C17: unit prices of 0 are left out of the price-change calculations: no
\* change record of analyzePriceChanges and no price alert of an import has a
\* previous price of 0, and no percentage change is infinite.
C17_Original ==
  /\ \A k \in DOMAIN anChanges :
       /\ anChanges[k].previousPrice # 0
       /\ ~anChanges[k].percentageChange.infinite
  /\ \A k \in DOMAIN dbPriceAlerts :
       /\ dbPriceAlerts[k].previous_price # 0
       /\ ~dbPriceAlerts[k].percentage_change.infinite

\* ---------------------------------------------------------------------------
\* Properties of concurrent imports
\* ---------------------------------------------------------------------------
InvoicesNumbered(documentNumber) ==
  {i \in DOMAIN dbInvoices : dbInvoices[i].document_number = documentNumber}

\* C18: under every interleaving of two import runs, each document number has
\* at most one row of invoices, and so one set of line items and price-history
\* rows.
C18_Original ==
  \A k \in DOMAIN DocumentNumbers :
    /\ Cardinality(InvoicesNumbered(DocumentNumbers[k])) <= 1
    /\ Cardinality({dbLineItems[i].invoice_id : i \in
                      {i \in DOMAIN dbLineItems :
                         dbLineItems[i].invoice_id \in InvoicesNumbered(DocumentNumbers[k])}})
         <= 1
    /\ Cardinality({dbPriceHistory[i].invoice_id : i \in
                      {i \in DOMAIN dbPriceHistory :
                         dbPriceHistory[i].invoice_id \in InvoicesNumbered(DocumentNumbers[k])}})
         <= 1

\* ---------------------------------------------------------------------------
\* Properties of importInvoicesFromDirectory
\* ---------------------------------------------------------------------------
\* a step of the loop in which a message is added to errors
FileFails == dr.pc \in {"file", "invoice"} /\ Len(dr'.result.errors) > Len(dr.result.errors)

CountsKept ==
  /\ dr'.result.processedFiles = dr.result.processedFiles
  /\ dr'.result.totalInvoices = dr.result.totalInvoices
  /\ dr'.result.totalLineItems = dr.result.totalLineItems

InvoicesKept == SubSeq(dbInvoices', 1, Len(dbInvoices)) = dbInvoices

\* C19: a failure while a file is processed is appended to errors and the
\* loop goes on with the next file (or ends after the last one); the failure
\* of an invoice ends the work on its file; the invoices stored before stay
\* stored; and the file adds nothing to processedFiles, totalInvoices and
\* totalLineItems, which no step within a file changes.
C19_ErrorIsolation ==
  [][/\ FileFails =>
          /\ dr'.result.errors = Append(dr.result.errors, dr.file)
          /\ dr'.result.skippedFiles = dr.result.skippedFiles
          /\ IF dr.file < dr.result.totalFiles
               THEN dr'.pc = "file" /\ dr'.file = dr.file + 1
               ELSE dr'.pc = "done"
          /\ CountsKept
          /\ InvoicesKept
     /\ (dr.pc = "invoice" /\ dr'.pc = "invoice") =>
          /\ dr'.file = dr.file
          /\ CountsKept
          /\ InvoicesKept]_vars

\* the first file failed after one of its invoices was stored, nothing of it
\* is counted and the second file is next
C19_Witness ==
  /\ dr.pc = "file"
  /\ dr.file = 2
  /\ dr.result.errors = <<1>>
  /\ Len(dbInvoices) = 1
  /\ Len(dbLineItems) = 1
  /\ dr.result.processedFiles = 0
  /\ dr.result.totalInvoices = 0
  /\ dr.result.totalLineItems = 0

FilesIn(s) == {s[k] : k \in DOMAIN s}

\* C20: when importInvoicesFromDirectory returns for a directory with at least
\* one CSV file, processedFiles + skippedFiles.length + errors.length is
\* totalFiles, no file is both skipped and in errors or twice in either, and
\* success is true exactly if processedFiles > 0; and a step that skips a file
\* writes nothing to the database.
C20_Accounting ==
  /\ [](dr.pc = "done" /\ dr.result.totalFiles >= 1 =>
          /\ dr.result.processedFiles + Len(dr.result.skippedFiles)
               + Len(dr.result.errors) = dr.result.totalFiles
          /\ Cardinality(FilesIn(dr.result.skippedFiles) \cup FilesIn(dr.result.errors))
               = Len(dr.result.skippedFiles) + Len(dr.result.errors)
          /\ FilesIn(dr.result.skippedFiles) \cup FilesIn(dr.result.errors)
               \subseteq 1..dr.result.totalFiles
          /\ dr.result.success <=> dr.result.processedFiles > 0)
  /\ [][Len(dr'.result.skippedFiles) > Len(dr.result.skippedFiles)
          => UNCHANGED dbVars]_vars

\* two files: the first skipped, the second processed
C20_Witness ==
  /\ dr.pc = "done"
  /\ dr.result.totalFiles = 2
  /\ dr.result.skippedFiles = <<1>>
  /\ dr.result.errors = <<>>
  /\ dr.result.processedFiles = 1
  /\ dr.result.totalInvoices = 2
  /\ dr.result.success

\* ---------------------------------------------------------------------------
\* Properties of analyzePriceChanges: the order of the input
\* ---------------------------------------------------------------------------
\* the invoice lists that hold the invoices of anInvoices in another order
Reorderings ==
  {[i \in DOMAIN anInvoices |-> anInvoices[p[i]]] :
     p \in {q \in [DOMAIN anInvoices -> DOMAIN anInvoices] :
              \A i, j \in DOMAIN anInvoices : i # j => q[i] # q[j]}}

RecordsOf(changes) == {changes[k] : k \in DOMAIN changes}

\* C21: analyzePriceChanges returns the same set of change records for every
\* ordering of the invoice list, also when two invoices with the same product
\* carry the same document date.
C21_Original ==
  AnalyzeCalled =>
    \A invoices \in Reorderings :
      RecordsOf(analyzePriceChanges(invoices, anThreshold)) = RecordsOf(anChanges)

\* the same where the invoices carry different document dates
C21_DistinctDates ==
  (AnalyzeCalled /\ \A i, j \in DOMAIN anInvoices :
                      i # j => anInvoices[i].documentDate # anInvoices[j].documentDate) =>
    \A invoices \in Reorderings :
      RecordsOf(analyzePriceChanges(invoices, anThreshold)) = RecordsOf(anChanges)

\* ---------------------------------------------------------------------------
\* Properties of calculateMonthlySpending
\* ---------------------------------------------------------------------------
\* the number of the month an entry names
MonthOfEntry(entry) == CHOOSE m \in 1..12 : MonthNames[m] = entry.month

InvoicesOfMonth(year, month) ==
  {i \in DOMAIN msInvoices : msInvoices[i].documentDate = <<year, month>>}

\* C22: calculateMonthlySpending returns one entry for each calendar month
\* with an invoice, ordered by year and then by the month of the calendar,
\* every invoice counted in one entry: the invoiceCount values add up to the
\* number of invoices.
C22_Original ==
  msCalled =>
    /\ \A i \in DOMAIN msInvoices :
         Cardinality({k \in DOMAIN msResult :
                        <<msResult[k].year, MonthOfEntry(msResult[k])>>
                          = msInvoices[i].documentDate}) = 1
    /\ \A k \in DOMAIN msResult :
         /\ msResult[k].invoiceCount
              = Cardinality(InvoicesOfMonth(msResult[k].year, MonthOfEntry(msResult[k])))
         /\ msResult[k].invoiceCount >= 1
    /\ SumSeq([k \in DOMAIN msResult |-> msResult[k].invoiceCount]) = Len(msInvoices)
    /\ \A k \in 1..(Len(msResult) - 1) :
         \/ msResult[k].year < msResult[k + 1].year
         \/ /\ msResult[k].year = msResult[k + 1].year
            /\ MonthOfEntry(msResult[k]) < MonthOfEntry(msResult[k + 1])

\* C22 without the order within a year: the entries and their counts
C22_EntriesAndCounts ==
  msCalled =>
    /\ \A i \in DOMAIN msInvoices :
         Cardinality({k \in DOMAIN msResult :
                        <<msResult[k].year, MonthOfEntry(msResult[k])>>
                          = msInvoices[i].documentDate}) = 1
    /\ \A k \in DOMAIN msResult :
         msResult[k].invoiceCount
           = Cardinality(InvoicesOfMonth(msResult[k].year, MonthOfEntry(msResult[k])))
    /\ SumSeq([k \in DOMAIN msResult |-> msResult[k].invoiceCount]) = Len(msInvoices)
    /\ \A k \in 1..(Len(msResult) - 1) : msResult[k].year <= msResult[k + 1].year

\* ---------------------------------------------------------------------------
\* Properties of parsePackSize on counts
\* ---------------------------------------------------------------------------
\* the argument is an integer followed by the word w in any case
CountOf(w) ==
  /\ pkCalled
  /\ pkCase.form = "simple"
  /\ \A i \in DOMAIN pkCase.n : pkCase.n[i] # "."
  /\ Len(pkCase.unit) = Len(w)
  /\ \A i \in DOMAIN w : pkCase.unit[i] \in {w[i], UpperLetters[IndexIn(w[i], LowerLetters)]}

\* the integer the argument starts with
CountValue == [num |-> DigitsValue(pkCase.n), den |-> 1]

\* C23: for a pack size made of an integer followed by EA or EACH in any
\* case, parsePackSize returns units = 1, unitType = 'EA' and totalUnits =
\* the integer.
C23_Original ==
  (CountOf(<<"e", "a">>) \/ CountOf(<<"e", "a", "c", "h">>)) =>
    /\ pkResult.units = [num |-> 1, den |-> 1]
    /\ pkResult.unitType = <<"E", "A">>
    /\ pkResult.totalUnits = CountValue

\* C23 for EA alone
C23_EA ==
  CountOf(<<"e", "a">>) =>
    /\ pkResult.units = [num |-> 1, den |-> 1]
    /\ pkResult.unitType = <<"E", "A">>
    /\ pkResult.totalUnits = CountValue

\* C23 for EACH with the unit type the simple pattern gives
C23_EACH ==
  CountOf(<<"e", "a", "c", "h">>) =>
    /\ pkResult.units = [num |-> 1, den |-> 1]
    /\ pkResult.unitType = <<"E", "A", "C", "H">>
    /\ pkResult.totalUnits = CountValue

\* ---------------------------------------------------------------------------
\* Properties of categorizeProduct and of the rows of product_master
\* ---------------------------------------------------------------------------
\* the order in which the keyword groups are to be tried
CategoryOrder == <<"Produce", "Protein", "Dairy", "Supplies", "Beverages">>

\* the description of the line item has a keyword of the category
HasKeywordOf(category) ==
  \E g \in DOMAIN KeywordGroups :
    /\ KeywordGroups[g].category = category
    /\ \E keyword \in KeywordGroups[g].keywords :
         \E i \in 1..Len(cpItem.productDescription) :
           /\ i + Len(keyword) - 1 <= Len(cpItem.productDescription)
           /\ \A k \in 1..Len(keyword) :
                LowerChar(cpItem.productDescription[i + k - 1]) = keyword[k]

\* the category of the first group in the order with a keyword in the
\* description, "Dry Goods" when there is none
FirstCategory ==
  IF \A c \in DOMAIN CategoryOrder : ~HasKeywordOf(CategoryOrder[c]) THEN "Dry Goods"
  ELSE CategoryOrder[CHOOSE c \in DOMAIN CategoryOrder :
                       /\ HasKeywordOf(CategoryOrder[c])
                       /\ \A b \in 1..(c - 1) : ~HasKeywordOf(CategoryOrder[b])]

\* categorizeProduct has returned for the line item
Categorized == cpCategory # ""

\* C24: categorizeProduct returns for every description one of the six
\* categories product_master accepts, namely the category of the first of the
\* keyword groups Produce, Protein, Dairy, Supplies, Beverages with a keyword
\* in the description and Dry Goods when there is none; every row of
\* product_master has one of the six categories, and the row the importer
\* inserts for a new product has the category categorizeProduct returned.
C24_ValidCategory ==
  /\ (cpPc = "insert" => Categorized)
  /\ Categorized =>
       /\ cpCategory \in ProductCategories
       /\ cpCategory = FirstCategory
  /\ \A row \in cpProducts : row.category \in ProductCategories
  /\ (cpPc = "done" /\ Categorized) =>
       [product_number |-> cpItem.productNumber,
        description    |-> cpItem.productDescription,
        category       |-> FirstCategory] \in cpProducts

\* a new product whose description has keywords of two groups was inserted
\* under the first of them
C24_Witness ==
  /\ cpPc = "done"
  /\ Categorized
  /\ HasKeywordOf("Dairy")
  /\ HasKeywordOf("Supplies")
  /\ cpCategory = "Dairy"
  /\ \E row \in cpProducts :
       row.product_number = cpItem.productNumber /\ row.category = "Dairy"

(***************************************************************************)
(* Properties of the redirects of the middleware.                           *)
(***************************************************************************)
\* the request is for a sign-in or sign-up page
AuthPage ==
  \E page \in {<<"/", "a", "u", "t", "h", "/", "s", "i", "g", "n", "i", "n">>,
               <<"/", "a", "u", "t", "h", "/", "s", "i", "g", "n", "u", "p">>} :
    Len(mwPath) >= Len(page) /\ SubSeq(mwPath, 1, Len(page)) = page

\* C25: the redirects of the middleware do not loop.  An authenticated
\* request for a path that starts with /auth/signin or /auth/signup is
\* redirected to /dashboard; with the authentication state unchanged, the
\* request for the target of a redirect is passed through, so that no request
\* is redirected more than once.
C25_NoRedirectLoop ==
  /\ (Answered /\ mwUser /\ AuthPage) =>
       mwResponse = [kind |-> "redirect",
                     location |-> <<"/", "d", "a", "s", "h", "b", "o", "a", "r", "d">>]
  /\ (mwRedirects >= 1 /\ mwResponse.kind # "pending") => mwResponse.kind = "next"
  /\ mwRedirects <= 1

\* an authenticated request for /auth/signup/ was redirected, and the request
\* for /dashboard that followed was passed through
C25_Witness ==
  /\ mwUser
  /\ mwRedirects = 1
  /\ mwPath = <<"/", "d", "a", "s", "h", "b", "o", "a", "r", "d">>
  /\ mwResponse.kind = "next"

====
